---- MODULE Spec2Model ----
(***************************************************************************)
(* Resource lifetime tracking of gfx-rs: the handle Manager of             *)
(* core/src/handle.rs (reference-counted pools, deferred destruction by    *)
(* clean_with) and the resource tracking of the OpenGL command queue of    *)
(* backend/gl/src/lib.rs (frame_handles, pin_submitted_resources, cleanup).*)
(***************************************************************************)
EXTENDS Integers, Sequences, FiniteSets, TLC

\* ---------------------------------------------------------------- bounds
\* Number of resources (Arc allocations) ever created in one behaviour.
MaxRes == 2
\* Number of Handle values the user holds for one resource at a time.
MaxHandles == 2
\* Number of references a tracking manager (recording set, frame set) holds.
MaxCount == 2
\* The cap on frame_handles.count() that Adapter::open configures. The source
\* sets 999999; the model puts the cap within reach of MaxFrame.
ResourceCap == 1
\* Number of references frame_handles holds between two cleanups.
MaxFrame == 3
\* Length of the pool clean_vec is applied to on its own.
MaxVec == 3

\* Resources the device creates where the submission is followed step by step.
MaxPipeline == 5

Res == 1..(IF MaxPipeline > MaxRes THEN MaxPipeline ELSE MaxRes)
\* "no resource": the empty second field of a Handle, an unset Option.
NoRes == 0

\* ------------------------------------------------------- handle.rs: types
\* The twelve pools of Manager, in the order clean_with sweeps them.
KindOrder ==
    << "buffers", "shaders", "programs", "psos", "textures", "srvs",
       "uavs", "rtvs", "dsvs", "samplers", "fences", "semaphores" >>

Kinds == { KindOrder[i] : i \in DOMAIN KindOrder }

\* The managers of the program: the device's pool (Share.handles), the
\* manager a command buffer fills while recording (the `man` argument of
\* pin_submitted_resources) and the queue's frame set (frame_handles).
Managers == { "handles", "man", "frame_handles" }

\* Manager::new: every pool is an empty Vec.
NewManager == [ k \in Kinds |-> << >> ]

VARIABLES
    pools,      \* pools[m][k]: the Vec<Arc<X>> of kind k of manager m
    kind,       \* kind[r]: the pool kind of resource r, "none" before creation
    holds,      \* holds[r]: the resource the Handle of r holds a Handle to
    handles,    \* handles[r]: number of Handle values of r held by the user
    strong,     \* strong[r]: the strong count of the Arc of r
    mapFence,   \* mapFence[b]: the fence the mapping status of buffer b holds
    destroyed,  \* destroyed[r]: number of destroy callbacks invoked on r
    last,       \* the last operation: its name, its manager, whether it repeats
    mapping,    \* mapping[b]: buffer b was created with Some(mapping)
    pending,    \* pending[r]: submitted GPU work that refers to r has not completed
    max_resource_count,  \* CommandQueue.max_resource_count, an Option<usize>
    errors,     \* number of "Way too many resources" lines logged
    private_caps,        \* Share.private_caps: the capabilities the queue reads
    state,      \* CommandQueue.state: the cache of the driver state (struct State)
    driver,     \* the state of the GL context the cache tracks
    events,     \* the steps of the last queue operation, with their native calls
    features,   \* Share.features: the draw entry points the context has
    cmd,        \* process alone: the command it is given
    issued,     \* process alone: its native calls and errors, once it has run
    given,      \* clean_vec alone: the pool it is given
    counts,     \* clean_vec alone: the strong count of every entry
    cleaned,    \* clean_vec alone: its result, once it has run
    cpu,        \* cpu[b]: the CPU side of the mapping of buffer b (pointer, cpu_wrote, access)
    debug_assertions,    \* cfg!(debug_assertions): the build checks the error flag
    capacity,   \* the number of resources the device creates in this run
    adapter,    \* the Adapter: what its context offers, the Gpus its open has returned
    com,        \* a COM object: its reference count, the WeakPtrs made for it
    wait        \* the call of device::wait_fence under way: its fence, timeout, time so far

hvars == << pools, kind, holds, handles, strong, mapFence, destroyed, last, mapping >>

qvars == << pending, max_resource_count, errors, private_caps >>

pvars == << given, counts, cleaned >>

cvars == << state, driver, events >>

dvars == << features, cmd, issued >>

bvars == << debug_assertions, capacity, adapter, com, wait >>

mvars == << cpu, bvars >>

\* Option<usize>
None == << >>

Some(c) == << c >>

\* An Adapter whose open has not been called: share.features.srgb_color and
\* share.info.version.is_embedded of its context, no Gpu.
Unopened(srgb_color, is_embedded) ==
    [ srgb_color |-> srgb_color, is_embedded |-> is_embedded, gpus |-> << >> ]

\* No COM object: no reference, no WeakPtr.
NoCom == [ count |-> 0, ptrs |-> << >>, ub |-> FALSE ]

\* No call of device::wait_fence is under way.
Idle == [ fence |-> 0, timeout |-> None, elapsed |-> 0 ]

\* ------------------------------------------------------ handle.rs: helpers
\* Manager::count: the sum of the lengths of the twelve pools.
RECURSIVE CountFrom(_, _)
CountFrom(man, i) ==
    IF i > Len(KindOrder) THEN 0
    ELSE Len(man[KindOrder[i]]) + CountFrom(man, i + 1)

count(man) == CountFrom(man, 1)

\* Number of entries of resource r in the pools of one manager.
EntriesIn(man, r) ==
    Cardinality({ e \in UNION { { << k, i >> : i \in DOMAIN man[k] } : k \in Kinds } :
                    man[e[1]][e[2]] = r })

\* The kinds whose Handle carries a second Handle, with the kinds that second
\* Handle may have: RawPipelineState(_, Program), ViewSource::{Buffer, Texture}
\* for SRV and UAV, RawTexture for RTV and DSV.
SourceKinds(k) ==
    CASE k = "psos" -> { "programs" }
      [] k \in { "srvs", "uavs" } -> { "buffers", "textures" }
      [] k \in { "rtvs", "dsvs" } -> { "textures" }
      [] OTHER -> { }

\* Dropping one Arc of r. The last one drops the payload: a buffer::Raw drops
\* its mapping, and with it the fence Handle the mapping status holds.
RECURSIVE Release(_, _)
Release(st, r) ==
    IF st.strong[r] > 1
    THEN [ st EXCEPT !.strong[r] = @ - 1 ]
    ELSE LET st1 == [ st EXCEPT !.strong[r] = 0, !.mapFence[r] = NoRes ]
         IN  IF st.mapFence[r] # NoRes THEN Release(st1, st.mapFence[r]) ELSE st1

\* Dropping the Arcs of a sequence of pool entries, first to last.
RECURSIVE ReleaseSeq(_, _)
ReleaseSeq(st, entries) ==
    IF entries = << >> THEN st
    ELSE ReleaseSeq(Release(st, Head(entries)), Tail(entries))

\* Dropping one Handle value of r: its Arc, then the Handle it carries.
DropValue(st, r) ==
    LET st1 == Release(st, r)
    IN  IF holds[r] # NoRes THEN Release(st1, holds[r]) ELSE st1

\* Arc::clone of every entry of a sequence.
RECURSIVE CloneSeq(_, _)
CloneSeq(s, entries) ==
    IF entries = << >> THEN s
    ELSE CloneSeq([ s EXCEPT ![Head(entries)] = @ + 1 ], Tail(entries))

\* --------------------------------------------------- handle.rs: clean_with
\* Variant: the resource counts as unique while one reference besides the
\* pool entry remains.
IsUnique_UpToTwo(s, r) == s[r] >= 1 /\ s[r] <= 2

\* Arc::get_mut(v) is Some exactly when v is the only Arc of its resource.
IsUnique(s, r) == s[r] = 1

\* First loop of clean_vec: the indices, ascending, of the unique entries
\* (`temp`); the destroy callback runs on each of them.
RECURSIVE UniqueIndices(_, _, _)
UniqueIndices(vector, s, i) ==
    IF i > Len(vector) THEN << >>
    ELSE (IF IsUnique(s, vector[i]) THEN << i >> ELSE << >>)
         \o UniqueIndices(vector, s, i + 1)

\* Variant: the last element is removed (Vec::pop) whatever t is.
swap_remove_Pop(vector, t) ==
    [ vector  |-> SubSeq(vector, 1, Len(vector) - 1),
      removed |-> vector[Len(vector)] ]

\* Vec::swap_remove(t): the last element takes the place of element t, which
\* is returned.
swap_remove(vector, t) ==
    [ vector  |-> [ i \in 1..(Len(vector) - 1) |->
                      IF i = t THEN vector[Len(vector)] ELSE vector[i] ],
      removed |-> vector[t] ]

\* Variant: only the last index of temp is removed.
RemoveRev_LastOnly(vector, temp, dropped) ==
    IF temp = << >> THEN [ vector |-> vector, dropped |-> dropped ]
    ELSE LET res == swap_remove(vector, temp[Len(temp)])
         IN  [ vector |-> res.vector, dropped |-> Append(dropped, res.removed) ]

\* Second loop of clean_vec: swap_remove of every index of temp, last first.
\* The elements swap_remove returns are dropped at once.
RECURSIVE RemoveRev(_, _, _)
RemoveRev(vector, temp, dropped) ==
    IF temp = << >> THEN [ vector |-> vector, dropped |-> dropped ]
    ELSE LET res == swap_remove(vector, temp[Len(temp)])
         IN  RemoveRev(res.vector, SubSeq(temp, 1, Len(temp) - 1),
                       Append(dropped, res.removed))

\* Variant: the first loop starts at the second entry.
clean_vec_SkipFirst(vector, s) ==
    LET temp == UniqueIndices(vector, s, 2)
        res  == RemoveRev(vector, temp, << >>)
    IN  [ vector  |-> res.vector,
          called  |-> [ i \in 1..Len(temp) |-> vector[temp[i]] ],
          dropped |-> res.dropped ]

\* clean_vec on one pool, given the strong counts: the pool afterwards, the
\* entries the destroy callback was called on (in call order) and the entries
\* dropped (in drop order).
clean_vec(vector, s) ==
    LET temp == UniqueIndices(vector, s, 1)
        res  == RemoveRev(vector, temp, << >>)
    IN  [ vector  |-> res.vector,
          called  |-> [ i \in 1..Len(temp) |-> vector[temp[i]] ],
          dropped |-> res.dropped ]

\* One more destroy callback for every entry of a sequence.
RECURSIVE CountCalls(_, _)
CountCalls(d, called) ==
    IF called = << >> THEN d
    ELSE CountCalls([ d EXCEPT ![Head(called)] = @ + 1 ], Tail(called))

\* clean_with: clean_vec on the twelve pools of manager m in order, from the
\* i-th on. st carries pools, strong, mapFence, destroyed and the entries the
\* destroy callbacks were called on so far, in order.
RECURSIVE CleanFrom(_, _, _)
CleanFrom(st, m, i) ==
    IF i > Len(KindOrder) THEN st
    ELSE LET k   == KindOrder[i]
             res == clean_vec(st.pools[m][k], st.strong)
             rel == ReleaseSeq([ strong |-> st.strong, mapFence |-> st.mapFence ],
                               res.dropped)
         IN  CleanFrom([ pools     |-> [ st.pools EXCEPT ![m][k] = res.vector ],
                         strong    |-> rel.strong,
                         mapFence  |-> rel.mapFence,
                         destroyed |-> CountCalls(st.destroyed, res.called),
                         called    |-> st.called \o res.called ],
                       m, i + 1)

clean_with(st, m) == CleanFrom(st, m, 1)

\* Variant: the last pool is left as it is.
clear_KeepSemaphores(man) ==
    [ k \in Kinds |-> IF k = "semaphores" THEN man[k] ELSE << >> ]

\* Manager::clear: every pool is emptied, every entry dropped.
clear(man) == [ k \in Kinds |-> << >> ]

RECURSIVE ClearFrom(_, _, _)
ClearFrom(st, man, i) ==
    IF i > Len(KindOrder) THEN st
    ELSE ClearFrom(ReleaseSeq(st, man[KindOrder[i]]), man, i + 1)

\* Variant: the fences of other are not taken over.
extend_NoFences(self, other) ==
    [ k \in Kinds |-> IF k = "fences" THEN self[k] ELSE self[k] \o other[k] ]

\* Manager::extend: every pool of self gets a clone of every entry of the
\* same pool of other.
extend(self, other) == [ k \in Kinds |-> self[k] \o other[k] ]

RECURSIVE CloneFrom(_, _, _)
CloneFrom(s, man, i) ==
    IF i > Len(KindOrder) THEN s
    ELSE CloneFrom(CloneSeq(s, man[KindOrder[i]]), man, i + 1)

\* ------------------------------------------------------------ the state
\* The state after Adapter::open: no resource, every manager empty.
HInit ==
    /\ pools = [ m \in Managers |-> NewManager ]
    /\ kind = [ r \in Res |-> "none" ]
    /\ holds = [ r \in Res |-> NoRes ]
    /\ handles = [ r \in Res |-> 0 ]
    /\ strong = [ r \in Res |-> 0 ]
    /\ mapFence = [ r \in Res |-> NoRes ]
    /\ destroyed = [ r \in Res |-> 0 ]
    /\ last = [ op |-> "new", m |-> "handles", rep |-> FALSE ]
    /\ mapping = [ r \in Res |-> FALSE ]

\* The device has a resource left to create.
Free == \E r \in 1..capacity : kind[r] = "none"

\* The resource the next Arc::new allocates.
Fresh == CHOOSE r \in Res : kind[r] = "none" /\ \A q \in Res : kind[q] = "none" => r <= q

\* The user can name a Handle of r: one they hold, or the texture Handle an
\* RTV or DSV they hold gives out (get_texture).
Reachable(r) ==
    \/ handles[r] > 0
    \/ \E o \in Res : /\ kind[o] \in { "rtvs", "dsvs" }
                      /\ holds[o] = r
                      /\ handles[o] > 0

Op(name, m) ==
    [ op |-> name, m |-> m,
      rep |-> name \in { "clean_with", "cleanup", "pin" } /\ last.op = name ]

\* ---------------------------------------------------- handle.rs: actions
\* Variant: the clone pushed into the pool is not counted.
MakePlain_CountOne(m, k, mp) ==
    /\ SourceKinds(k) = { }
    /\ mp => k = "buffers"
    /\ Free
    /\ LET r == Fresh
       IN  /\ kind' = [ kind EXCEPT ![r] = k ]
           /\ pools' = [ pools EXCEPT ![m][k] = Append(@, r) ]
           /\ strong' = [ strong EXCEPT ![r] = 1 ]
           /\ handles' = [ handles EXCEPT ![r] = 1 ]
           /\ mapping' = [ mapping EXCEPT ![r] = mp ]
    /\ last' = Op("make", m)
    /\ UNCHANGED << holds, mapFence, destroyed >>

\* make_buffer, make_shader, make_program, make_texture, make_sampler,
\* make_fence, make_semaphore on manager m: Arc::new, a clone into the pool,
\* the Arc itself in the Handle returned.
MakePlain(m, k, mp) ==
    /\ SourceKinds(k) = { }
    /\ mp => k = "buffers"
    /\ Free
    /\ LET r == Fresh
       IN  /\ kind' = [ kind EXCEPT ![r] = k ]
           /\ pools' = [ pools EXCEPT ![m][k] = Append(@, r) ]
           /\ strong' = [ strong EXCEPT ![r] = 2 ]
           /\ handles' = [ handles EXCEPT ![r] = 1 ]
           /\ mapping' = [ mapping EXCEPT ![r] = mp ]
    /\ last' = Op("make", m)
    /\ UNCHANGED << holds, mapFence, destroyed >>

\* make_pso, make_buffer_srv, make_texture_srv, make_buffer_uav,
\* make_texture_uav, make_rtv, make_dsv on manager m: as above, and the Handle
\* returned carries a clone of the Handle of its program or source.
MakeOwner(m, k, src) ==
    /\ kind[src] \in SourceKinds(k)
    /\ Reachable(src)
    /\ Free
    /\ LET r == Fresh
       IN  /\ kind' = [ kind EXCEPT ![r] = k ]
           /\ holds' = [ holds EXCEPT ![r] = src ]
           /\ pools' = [ pools EXCEPT ![m][k] = Append(@, r) ]
           /\ strong' = [ strong EXCEPT ![r] = 2, ![src] = @ + 1 ]
           /\ handles' = [ handles EXCEPT ![r] = 1 ]
    /\ last' = Op("make", m)
    /\ UNCHANGED << mapFence, destroyed, mapping >>

\* Clone of a Handle value (derive(Clone)): its Arc and the Handle it carries.
CloneHandle(r) ==
    /\ Reachable(r)
    /\ handles[r] < MaxHandles
    /\ handles' = [ handles EXCEPT ![r] = @ + 1 ]
    /\ strong' = IF holds[r] # NoRes
                 THEN [ strong EXCEPT ![r] = @ + 1, ![holds[r]] = @ + 1 ]
                 ELSE [ strong EXCEPT ![r] = @ + 1 ]
    /\ last' = Op("clone", "handles")
    /\ UNCHANGED << pools, kind, holds, mapFence, destroyed, mapping >>

\* The user drops one Handle value of r.
DropHandle(r) ==
    /\ handles[r] > 0
    /\ LET st == DropValue([ strong |-> strong, mapFence |-> mapFence ], r)
       IN  /\ strong' = st.strong
           /\ mapFence' = st.mapFence
    /\ handles' = [ handles EXCEPT ![r] = @ - 1 ]
    /\ last' = Op("drop", "handles")
    /\ UNCHANGED << pools, kind, holds, destroyed, mapping >>

\* ref_buffer, ref_shader, ref_program, ref_texture, ref_srv, ref_uav,
\* ref_sampler, ref_fence, ref_semaphore: a clone of the Arc into the pool.
RefPlain(m, r) ==
    /\ handles[r] > 0
    /\ kind[r] \notin { "psos", "rtvs", "dsvs" }
    /\ count(pools[m]) < MaxCount
    /\ pools' = [ pools EXCEPT ![m][kind[r]] = Append(@, r) ]
    /\ strong' = [ strong EXCEPT ![r] = @ + 1 ]
    /\ last' = Op("ref", m)
    /\ UNCHANGED << kind, holds, handles, mapFence, destroyed, mapping >>

\* Variant: only the pipeline state or view itself is pushed.
RefOwner_Alone(m, r) ==
    /\ handles[r] > 0
    /\ kind[r] \in { "psos", "rtvs", "dsvs" }
    /\ count(pools[m]) < MaxCount
    /\ pools' = [ pools EXCEPT ![m][kind[r]] = Append(@, r) ]
    /\ strong' = [ strong EXCEPT ![r] = @ + 1 ]
    /\ last' = Op("ref", m)
    /\ UNCHANGED << kind, holds, handles, mapFence, destroyed, mapping >>

\* ref_pso: the pipeline state into psos and its program into programs.
\* ref_rtv, ref_dsv: the view into rtvs or dsvs and its texture into textures.
RefOwner(m, r) ==
    /\ handles[r] > 0
    /\ kind[r] \in { "psos", "rtvs", "dsvs" }
    /\ count(pools[m]) < MaxCount
    /\ LET second == IF kind[r] = "psos" THEN "programs" ELSE "textures"
       IN  pools' = [ pools EXCEPT ![m][kind[r]] = Append(@, r),
                                   ![m][second] = Append(@, holds[r]) ]
    /\ strong' = [ strong EXCEPT ![r] = @ + 1, ![holds[r]] = @ + 1 ]
    /\ last' = Op("ref", m)
    /\ UNCHANGED << kind, holds, handles, mapFence, destroyed, mapping >>

\* self.extend(other)
Extend(self, other) ==
    /\ self # other
    /\ count(pools[other]) > 0
    /\ count(pools[self]) + count(pools[other]) <= MaxCount + 1
    /\ pools' = [ pools EXCEPT ![self] = extend(pools[self], pools[other]) ]
    /\ strong' = CloneFrom(strong, pools[other], 1)
    /\ last' = Op("extend", self)
    /\ UNCHANGED << kind, holds, handles, mapFence, destroyed, mapping >>

\* m.clear()
Clear(m) ==
    /\ LET st == ClearFrom([ strong |-> strong, mapFence |-> mapFence ], pools[m], 1)
       IN  /\ strong' = st.strong
           /\ mapFence' = st.mapFence
    /\ pools' = [ pools EXCEPT ![m] = clear(pools[m]) ]
    /\ last' = Op("clear", m)
    /\ UNCHANGED << kind, holds, handles, destroyed, mapping >>

\* m.clean_with(..): the sweep.
CleanWith(m) ==
    /\ LET st == clean_with([ pools |-> pools, strong |-> strong,
                              mapFence |-> mapFence, destroyed |-> destroyed,
                              called |-> << >> ], m)
       IN  /\ pools' = st.pools
           /\ strong' = st.strong
           /\ mapFence' = st.mapFence
           /\ destroyed' = st.destroyed
    /\ last' = Op("clean_with", m)
    /\ UNCHANGED << kind, holds, handles, mapping >>

\* ------------------------------------------------- lib.rs: the state cache
\* Names of index buffers a command can bind; 0 is "no buffer".
MaxBuffer == 1
\* limits.max_viewports: the most viewports or scissors one command sets.
MaxViewports == 2

\* A native call: the entry point and its buffer name or entry count.
Call(fn, n) == [ fn |-> fn, n |-> n ]

\* State::new: the cache of a fresh context.
State_new ==
    [ vao |-> FALSE, index_buffer |-> None, num_viewports |-> 0, num_scissors |-> 0 ]

\* State::flush: the array object and the index buffer become unknown; the
\* viewport and scissor counts stay.
flush(st) == [ st EXCEPT !.vao = FALSE, !.index_buffer = None ]

\* The GL context after one native call. A buffer deleted while it is bound
\* is unbound by the context. viewports and scissors are the
\* indices whose entry is not the neutral one; a reset call writes neutral
\* entries, a command's call writes the command's.
Native(drv, call, neutral) ==
    CASE call.fn = "BindVertexArray" -> [ drv EXCEPT !.vao = TRUE ]
      [] call.fn = "BindBuffer" -> [ drv EXCEPT !.index_buffer = call.n ]
      [] call.fn = "DeleteBuffers" ->
            [ drv EXCEPT !.index_buffer = IF @ = call.n THEN 0 ELSE @ ]
      [] call.fn \in { "Viewport", "ViewportArrayv" } ->
            [ drv EXCEPT !.viewports = IF neutral THEN @ \ (0..(call.n - 1))
                                       ELSE @ \cup (0..(call.n - 1)) ]
      [] call.fn \in { "Scissor", "ScissorArrayv" } ->
            [ drv EXCEPT !.scissors = IF neutral THEN @ \ (0..(call.n - 1))
                                      ELSE @ \cup (0..(call.n - 1)) ]
      [] OTHER -> drv

RECURSIVE NativeAll(_, _, _)
NativeAll(drv, calls, neutral) ==
    IF calls = << >> THEN drv
    ELSE NativeAll(Native(drv, Head(calls), neutral), Tail(calls), neutral)

\* Variant: the index buffer is unbound but the cache does not record it.
reset_state_ForgetIndex(st, caps) ==
    LET bind == IF ~st.vao /\ caps.array_buffer_supported
                THEN << Call("BindVertexArray", 0) >> ELSE << >>
        unbind == IF st.index_buffer = Some(0) THEN << >> ELSE << Call("BindBuffer", 0) >>
        views == IF st.num_viewports = 1
                 THEN << Call("Viewport", 1), Call("DepthRange", 1) >>
                 ELSE IF st.num_viewports > 1
                 THEN << Call("ViewportArrayv", st.num_viewports),
                         Call("DepthRangeArrayv", st.num_viewports) >>
                 ELSE << >>
        sciss == IF st.num_scissors = 1
                 THEN << Call("Scissor", 1) >>
                 ELSE IF st.num_scissors > 1
                 THEN << Call("ScissorArrayv", st.num_scissors) >>
                 ELSE << >>
    IN  [ state |-> [ st EXCEPT !.vao = TRUE ],
          calls |-> bind \o unbind \o views \o sciss ]

\* Variant: the array object is bound whether or not array objects exist.
reset_state_BindUnsupported(st, caps) ==
    LET bind == IF ~st.vao THEN << Call("BindVertexArray", 0) >> ELSE << >>
        unbind == IF st.index_buffer = Some(0) THEN << >> ELSE << Call("BindBuffer", 0) >>
    IN  [ state |-> [ st EXCEPT !.vao = TRUE, !.index_buffer = Some(0) ],
          calls |-> bind \o unbind ]

\* reset_state: the native calls it issues, in order, and the cache afterwards.
reset_state(st, caps) ==
    LET bind == IF ~st.vao /\ caps.array_buffer_supported
                THEN << Call("BindVertexArray", 0) >> ELSE << >>
        unbind == IF st.index_buffer = Some(0) THEN << >> ELSE << Call("BindBuffer", 0) >>
        views == IF st.num_viewports = 1
                 THEN << Call("Viewport", 1), Call("DepthRange", 1) >>
                 ELSE IF st.num_viewports > 1
                 THEN << Call("ViewportArrayv", st.num_viewports),
                         Call("DepthRangeArrayv", st.num_viewports) >>
                 ELSE << >>
        sciss == IF st.num_scissors = 1
                 THEN << Call("Scissor", 1) >>
                 ELSE IF st.num_scissors > 1
                 THEN << Call("ScissorArrayv", st.num_scissors) >>
                 ELSE << >>
    IN  [ state |-> [ st EXCEPT !.vao = TRUE, !.index_buffer = Some(0) ],
          calls |-> bind \o unbind \o views \o sciss ]

\* A native draw call with what it draws: the instance count, the base
\* vertex and the base instance (1, 0, 0 where the entry point has no such
\* argument).
DrawCall(fn, num, base_vertex, base_instance) ==
    [ fn |-> fn, n |-> << num, base_vertex, base_instance >> ]

Issue(call) == [ calls |-> << call >>, errors |-> << >> ]

Error(msg) == [ calls |-> << >>, errors |-> << msg >> ]

\* Variant: without base-instance support the instanced call is issued for
\* any base.
process_Draw_DropBase(ft, instances) ==
    IF instances # None
    THEN LET num == instances[1][1]
             base == instances[1][2]
         IN  IF ft.draw_instanced
             THEN IF ft.draw_instanced_base
                  THEN Issue(DrawCall("DrawArraysInstancedBaseInstance", num, 0, base))
                  ELSE Issue(DrawCall("DrawArraysInstanced", num, 0, 0))
             ELSE Error("Instanced draw calls are not supported")
    ELSE Issue(DrawCall("DrawArrays", 1, 0, 0))

\* Variant: without instancing support the plain call is issued.
process_Draw_PlainFallback(ft, instances) ==
    IF instances # None /\ ft.draw_instanced
    THEN LET num == instances[1][1]
             base == instances[1][2]
         IN  IF ft.draw_instanced_base
             THEN Issue(DrawCall("DrawArraysInstancedBaseInstance", num, 0, base))
             ELSE IF base = 0
             THEN Issue(DrawCall("DrawArraysInstanced", num, 0, 0))
             ELSE Error("Instanced draw calls with non-zero base instance are not supported")
    ELSE Issue(DrawCall("DrawArrays", 1, 0, 0))

\* process, Command::Draw { instances, .. }
process_Draw(ft, instances) ==
    IF instances # None
    THEN LET num == instances[1][1]
             base == instances[1][2]
         IN  IF ft.draw_instanced
             THEN IF ft.draw_instanced_base
                  THEN Issue(DrawCall("DrawArraysInstancedBaseInstance", num, 0, base))
                  ELSE IF base = 0
                  THEN Issue(DrawCall("DrawArraysInstanced", num, 0, 0))
                  ELSE Error("Instanced draw calls with non-zero base instance are not supported")
             ELSE Error("Instanced draw calls are not supported")
    ELSE Issue(DrawCall("DrawArrays", 1, 0, 0))

\* Variant: without base-vertex support the plain instanced call is issued for
\* any base vertex.
NoBaseInstance_DropVertex(ft, num, base_vertex) ==
    IF ft.draw_indexed_instanced_base_vertex
    THEN Issue(DrawCall("DrawElementsInstancedBaseVertex", num, base_vertex, 0))
    ELSE IF ft.draw_indexed_instanced
    THEN Issue(DrawCall("DrawElementsInstanced", num, 0, 0))
    ELSE Error("Instanced indexed drawing is not supported")

\* The instanced branch of DrawIndexed once the base instance is known to be 0.
NoBaseInstance(ft, num, base_vertex) ==
    IF ft.draw_indexed_instanced_base_vertex
    THEN Issue(DrawCall("DrawElementsInstancedBaseVertex", num, base_vertex, 0))
    ELSE IF base_vertex # 0
    THEN Error("Base vertex with instanced indexed drawing is not supported")
    ELSE IF ft.draw_indexed_instanced
    THEN Issue(DrawCall("DrawElementsInstanced", num, 0, 0))
    ELSE Error("Instanced indexed drawing is not supported")

\* process, Command::DrawIndexed { base: base_vertex, instances, .. }
process_DrawIndexed(ft, base_vertex, instances) ==
    IF instances # None
    THEN LET num == instances[1][1]
             base_instance == instances[1][2]
         IN  IF ft.draw_indexed_instanced_base
             THEN Issue(DrawCall("DrawElementsInstancedBaseVertexBaseInstance",
                                 num, base_vertex, base_instance))
             ELSE IF base_instance # 0
             THEN Error("Instance bases with instanced indexed drawing is not supported")
             ELSE NoBaseInstance(ft, num, base_vertex)
    ELSE IF ft.draw_indexed_base
    THEN Issue(DrawCall("DrawElementsBaseVertex", 1, base_vertex, 0))
    ELSE IF base_vertex = 0
    THEN Issue(DrawCall("DrawElements", 1, 0, 0))
    ELSE Error("Base vertex with indexed drawing not supported")

\* process, Command::SetViewports with n entries
process_SetViewports(n) ==
    IF n = 1 THEN << Call("Viewport", 1), Call("DepthRange", 1) >>
    ELSE IF n > 1 THEN << Call("ViewportArrayv", n), Call("DepthRangeArrayv", n) >>
    ELSE << >>

\* process, Command::SetScissors with n entries
process_SetScissors(n) ==
    IF n = 1 THEN << Call("Scissor", 1) >> ELSE << Call("ScissorArrayv", n) >>

\* process(cmd, data_buf): the cache afterwards, the native calls issued and
\* the errors logged.
process(st, c, ft) ==
    CASE c.op = "BindIndexBuffer" ->
            [ state |-> [ st EXCEPT !.index_buffer = Some(c.n) ],
              calls |-> << Call("BindBuffer", c.n) >>, errors |-> << >> ]
      [] c.op = "SetViewports" ->
            [ state |-> st, calls |-> process_SetViewports(c.n), errors |-> << >> ]
      [] c.op = "SetScissors" ->
            [ state |-> st, calls |-> process_SetScissors(c.n), errors |-> << >> ]
      [] c.op = "Draw" ->
            LET res == process_Draw(ft, c.instances)
            IN  [ state |-> st, calls |-> res.calls, errors |-> res.errors ]
      [] c.op = "DrawIndexed" ->
            LET res == process_DrawIndexed(ft, c.base, c.instances)
            IN  [ state |-> st, calls |-> res.calls, errors |-> res.errors ]

\* The depth ranges recorded with a SetViewports command: as many as its
\* viewports where the command does not say.
depth_ranges(c) == IF "depth_ranges" \in DOMAIN c THEN c.depth_ranges ELSE c.n

\* Variant: the number of entries is not asserted.
asserts_AnyNumber(c) ==
    CASE c.op = "SetViewports" -> c.n = depth_ranges(c)
      [] OTHER -> TRUE

\* process, the assertions of Command::SetViewports and Command::SetScissors:
\* as many depth ranges as viewports, and 0 < n <= limits.max_viewports.
asserts(c) ==
    CASE c.op = "SetViewports" ->
            c.n = depth_ranges(c) /\ 0 < c.n /\ c.n <= MaxViewports
      [] c.op = "SetScissors" -> 0 < c.n /\ c.n <= MaxViewports
      [] OTHER -> TRUE

\* One step of a queue operation, as the log keeps it: what ran, the native
\* calls it issued, the errors it logged, the cache and the context after it.
Event(ev, calls, errs, st, drv) ==
    [ ev |-> ev, calls |-> calls, errors |-> errs, state |-> st, driver |-> drv ]

\* The error kinds Error::from_error_code decodes the flag of GetError into.
from_error_code(code) ==
    CASE code = 0 -> "NoError"
      [] code = 1280 -> "InvalidEnum"
      [] code = 1281 -> "InvalidValue"
      [] code = 1282 -> "InvalidOperation"
      [] code = 1285 -> "OutOfMemory"
      [] code = 1286 -> "InvalidFramebufferOperation"
      [] OTHER -> "UnknownError"

\* Variant: the flag is queried but never reported.
check_Ignore(code) ==
    IF debug_assertions
    THEN [ calls |-> << Call("GetError", 0) >>, err |-> "NoError" ]
    ELSE [ calls |-> << >>, err |-> "NoError" ]

\* Share::check with the context's error flag at code: a debug build queries
\* GetError and reports anything but NoError; a release build queries nothing.
check(code) ==
    IF debug_assertions
    THEN [ calls |-> << Call("GetError", 0) >>, err |-> from_error_code(code) ]
    ELSE [ calls |-> << >>, err |-> "NoError" ]

\* Sequencing: e, then F on what e gives.
Then(e, F(_)) == CHOOSE y \in { F(v) : v \in { e } } : TRUE

\* self.reset_state() on the running queue ctx: its cache, the context, the
\* steps so far.
DoReset(ctx) ==
    LET res == reset_state(ctx.state, private_caps)
        drv == NativeAll(ctx.driver, res.calls, TRUE)
    IN  [ ctx EXCEPT !.state  = res.state,
                     !.driver = drv,
                     !.events = Append(@, Event("reset_state", res.calls, << >>,
                                                res.state, drv)) ]

\* self.process(com, data): the command, then share.check(); an Err panics
\* with the error and the command, and so does an assertion of process that
\* fails, before any native call. ctx.gl_errors holds the error flag each
\* command still to come leaves in the context; the step is logged with its
\* command and the flag it left.
DoProcess(ctx, c) ==
    IF ~asserts(c)
    THEN [ ctx EXCEPT !.panicked = TRUE,
                      !.events = Append(@, Event("panic", << >>,
                                                 << [ err |-> "assertion failed", cmd |-> c ] >>,
                                                 ctx.state, ctx.driver)) ]
    ELSE
    LET res  == process(ctx.state, c, features)
        drv  == NativeAll(ctx.driver, res.calls, FALSE)
        code == IF ctx.gl_errors = << >> THEN 0 ELSE Head(ctx.gl_errors)
        chk  == check(code)
        ctx1 == [ ctx EXCEPT !.state  = res.state,
                             !.driver = drv,
                             !.events = Append(@, [ ev |-> "process",
                                                    calls |-> res.calls \o chk.calls,
                                                    errors |-> res.errors,
                                                    state |-> res.state, driver |-> drv,
                                                    cmd |-> c, flag |-> code ]),
                             !.gl_errors = IF @ = << >> THEN @ ELSE Tail(@) ]
    IN  IF chk.err = "NoError" THEN ctx1
        ELSE [ ctx1 EXCEPT !.panicked = TRUE,
                           !.events = Append(@, Event("panic", << >>,
                                                      << [ err |-> chk.err, cmd |-> c ] >>,
                                                      res.state, drv)) ]

\* for com in &*cb.buf { self.process(com, &*cb.data) }: a panic ends it.
RECURSIVE ProcessAll(_, _)
ProcessAll(ctx, buf) ==
    IF buf = << >> \/ ctx.panicked THEN ctx
    ELSE Then(DoProcess(ctx, Head(buf)), LAMBDA c : ProcessAll(c, Tail(buf)))

\* Variant: the command buffers are replayed without reset_state.
RECURSIVE Replay_NoReset(_, _)
Replay_NoReset(ctx, cmd_buffers) ==
    IF cmd_buffers = << >> \/ ctx.panicked THEN ctx
    ELSE Then(ProcessAll(ctx, Head(cmd_buffers)),
              LAMBDA c : Replay_NoReset(c, Tail(cmd_buffers)))

\* Variant: the command buffers are replayed last to first.
RECURSIVE Replay_Backwards(_, _)
Replay_Backwards(ctx, cmd_buffers) ==
    IF cmd_buffers = << >> \/ ctx.panicked THEN ctx
    ELSE Then(DoReset(ctx), LAMBDA r :
         Then(ProcessAll(r, cmd_buffers[Len(cmd_buffers)]), LAMBDA c :
              Replay_Backwards(c, SubSeq(cmd_buffers, 1, Len(cmd_buffers) - 1))))

\* The loop of submit_raw: for every command buffer reset_state, then process
\* on each of its commands.
RECURSIVE Replay(_, _)
Replay(ctx, cmd_buffers) ==
    IF cmd_buffers = << >> \/ ctx.panicked THEN ctx
    ELSE Then(DoReset(ctx), LAMBDA r :
         Then(ProcessAll(r, Head(cmd_buffers)), LAMBDA c :
              Replay(c, Tail(cmd_buffers))))

\* with_gl(fun): reset_state, the closure, which leaves the context in the
\* state after, then State::flush.
with_gl(ctx, after) ==
    Then(DoReset(ctx), LAMBDA ctx1 :
         LET ev2 == Append(ctx1.events, Event("fun", << >>, << >>, ctx1.state, after))
             st3 == flush(ctx1.state)
         IN  [ ctx1 EXCEPT !.state  = st3,
                           !.driver = after,
                           !.events = Append(ev2, Event("flush", << >>, << >>, st3, after)) ])

\* ------------------------------------------------------ the Manager alone
\* The device creates in Share.handles and sweeps it; a command buffer
\* references into its own manager while recording; the queue merges that
\* manager into frame_handles; both are cleared.
QInit ==
    /\ pending = [ r \in Res |-> FALSE ]
    /\ max_resource_count = Some(ResourceCap)
    /\ errors = 0
    /\ private_caps \in [ buffer_storage_supported : BOOLEAN, sync_supported : BOOLEAN,
                          array_buffer_supported : BOOLEAN ]

\* No buffer is mapped by the CPU; the build is a debug or a release build.
MInit ==
    /\ cpu = [ r \in Res |-> [ pointer |-> FALSE, cpu_wrote |-> FALSE, access |-> FALSE ] ]
    /\ debug_assertions \in BOOLEAN
    /\ capacity = MaxRes
    /\ adapter = Unopened(FALSE, FALSE)
    /\ com = NoCom
    /\ wait = Idle

\* A command of a command buffer: its variant, its buffer name or number of
\* entries, its base vertex and its instances, an Option<(count, base)>.
Cmd(op, n, base, instances) ==
    [ op |-> op, n |-> n, base |-> base, instances |-> instances ]

\* The queue after Adapter::open: State::new, the array object bound where
\* array objects exist, nothing else touched.
CInit ==
    /\ state = State_new
    /\ driver = [ vao |-> private_caps.array_buffer_supported, index_buffer |-> 0,
                  viewports |-> { }, scissors |-> { } ]
    /\ events = << >>

\* The feature sets of a context.
Features ==
    [ draw_instanced : BOOLEAN, draw_instanced_base : BOOLEAN,
      draw_indexed_base : BOOLEAN, draw_indexed_instanced : BOOLEAN,
      draw_indexed_instanced_base : BOOLEAN,
      draw_indexed_instanced_base_vertex : BOOLEAN ]

\* process has not run.
DInit ==
    /\ features = [ draw_instanced |-> TRUE, draw_instanced_base |-> TRUE,
                    draw_indexed_base |-> TRUE, draw_indexed_instanced |-> TRUE,
                    draw_indexed_instanced_base |-> TRUE,
                    draw_indexed_instanced_base_vertex |-> TRUE ]
    /\ cmd = Cmd("none", 0, 0, None)
    /\ issued = [ done |-> FALSE, calls |-> << >>, errors |-> << >> ]

\* clean_vec has not run.
PInit ==
    /\ given = << >>
    /\ counts = [ e \in Res |-> 1 ]
    /\ cleaned = [ done |-> FALSE, vector |-> << >>, called |-> << >>, dropped |-> << >> ]

ManagerOnly == UNCHANGED << qvars, pvars, cvars, dvars, mvars >>

Create == \E k \in Kinds : MakePlain("handles", k, FALSE) /\ ManagerOnly

CreateOwner == \E k \in Kinds, src \in Res : MakeOwner("handles", k, src) /\ ManagerOnly

Clone == \E r \in Res : CloneHandle(r) /\ ManagerOnly

Drop == \E r \in Res : DropHandle(r) /\ ManagerOnly

Reference == \E r \in Res : RefPlain("man", r) /\ ManagerOnly

ReferenceOwner == \E r \in Res : RefOwner("man", r) /\ ManagerOnly

Merge == Extend("frame_handles", "man") /\ ManagerOnly

ClearSet ==
    \E m \in { "man", "frame_handles" } :
        count(pools[m]) > 0 /\ Clear(m) /\ ManagerOnly

Sweep == CleanWith("handles") /\ ManagerOnly

Next ==
    \/ Create
    \/ CreateOwner
    \/ Clone
    \/ Drop
    \/ Reference
    \/ ReferenceOwner
    \/ Merge
    \/ ClearSet
    \/ Sweep

Init ==
    /\ HInit
    /\ QInit
    /\ MInit
    /\ debug_assertions
    /\ PInit
    /\ private_caps = [ buffer_storage_supported |-> TRUE, sync_supported |-> TRUE,
                        array_buffer_supported |-> TRUE ]
    /\ CInit
    /\ DInit

vars == << hvars, qvars, pvars, cvars, dvars, mvars >>

Spec == Init /\ [][Next]_vars

\* ------------------------------------------------ lib.rs: the command queue
\* Variant: the check logs and stays armed.
cap_check_StaysArmed(mrc, cnt) ==
    IF mrc # None /\ cnt > mrc[1]
    THEN [ max_resource_count |-> mrc, logged |-> 1 ]
    ELSE [ max_resource_count |-> mrc, logged |-> 0 ]

\* The match of pin_submitted_resources: Some(c) with count() > c logs the
\* error and sets max_resource_count to None; anything else does nothing.
cap_check(mrc, cnt) ==
    IF mrc # None /\ cnt > mrc[1]
    THEN [ max_resource_count |-> None, logged |-> 1 ]
    ELSE [ max_resource_count |-> mrc, logged |-> 0 ]

\* The queue while one of its operations runs: the cache, the context, the
\* steps so far, the error flags the commands to come leave behind, whether
\* it has panicked, and the resources it tracks.
Queue(gl_errors) ==
    [ state |-> state, driver |-> driver, events |-> << >>,
      gl_errors |-> gl_errors, panicked |-> FALSE,
      kind |-> kind, pools |-> pools, strong |-> strong, mapFence |-> mapFence,
      cpu |-> cpu,
      max_resource_count |-> max_resource_count, logged |-> 0 ]

\* The operation leaves the queue as q.
Becomes(q) ==
    /\ state' = q.state
    /\ driver' = q.driver
    /\ events' = q.events
    /\ kind' = q.kind
    /\ pools' = q.pools
    /\ strong' = q.strong
    /\ mapFence' = q.mapFence
    /\ cpu' = q.cpu
    /\ max_resource_count' = q.max_resource_count
    /\ errors' = errors + q.logged

\* A step of the queue that is not a step of the cache.
Step(q, ev, calls, errs) ==
    LET drv == NativeAll(q.driver, calls, FALSE)
    IN  [ q EXCEPT !.driver = drv,
                   !.events = Append(@, Event(ev, calls, errs, q.state, drv)) ]

\* Variant: the count is checked but nothing is merged.
pin_submitted_resources_CheckOnly(q, man) ==
    LET res == cap_check(q.max_resource_count, count(q.pools["frame_handles"]))
    IN  [ q EXCEPT !.max_resource_count = res.max_resource_count,
                   !.logged = @ + res.logged ]

\* pin_submitted_resources(man): frame_handles.extend(man), then the check.
pin_submitted_resources(q, man) ==
    LET frame == extend(q.pools["frame_handles"], man)
        res   == cap_check(q.max_resource_count, count(frame))
    IN  [ q EXCEPT !.pools["frame_handles"] = frame,
                   !.strong = CloneFrom(@, man, 1),
                   !.max_resource_count = res.max_resource_count,
                   !.logged = @ + res.logged ]

PinSubmittedResources ==
    /\ count(pools["frame_handles"]) + count(pools["man"]) <= MaxFrame
    /\ \E q \in { pin_submitted_resources([ Queue(<< >>) EXCEPT !.events = events ],
                                           pools["man"]) } : Becomes(q)
    /\ last' = Op("pin", "frame_handles")
    /\ UNCHANGED << holds, handles, destroyed, mapping,
                    pending, private_caps, pvars, dvars, bvars >>

\* The mapped buffers a command buffer recorded into `man` may access.
MappedIn(m) ==
    { b \in Res : kind[b] = "buffers" /\ mapping[b] /\ \E i \in DOMAIN pools[m]["buffers"] :
                                                          pools[m]["buffers"][i] = b }

\* AccessInfo: the mapped buffers the batch reads and those it writes.
Access(reads, writes) == [ mapped_reads |-> reads, mapped_writes |-> writes ]

access_mapped(access) == access.mapped_reads \cup access.mapped_writes

\* The kind of mapping the device gives a buffer: Persistent where buffer
\* storage is supported, Temporary elsewhere.
MappingKind ==
    IF private_caps.buffer_storage_supported THEN "Persistent" ELSE "Temporary"

\* AccessInfo::take_accesses: the Access Guard is built unless the CPU holds
\* an access to one of the mapped buffers of the batch.
take_accesses(q, access) ==
    IF \E b \in access_mapped(access) : q.cpu[b].access THEN "Err" ELSE "Ok"

\* Status::ensure_flushed on the mapping of b: the closure (BindBuffer on the
\* buffer's own target, FlushMappedBufferRange) runs if the CPU wrote since
\* the last flush.
ensure_flushed(q, b) ==
    IF q.cpu[b].cpu_wrote
    THEN [ Step(q, "ensure_flushed",
                << Call("BindBufferTarget", b), Call("FlushMappedBufferRange", b) >>,
                << >>)
           EXCEPT !.cpu[b].cpu_wrote = FALSE ]
    ELSE q

\* device::temporary_ensure_unmapped on the mapping of b: a mapped buffer is
\* unmapped and its pointer set to null.
temporary_ensure_unmapped(q, b) ==
    IF q.cpu[b].pointer
    THEN [ Step(q, "ensure_unmapped",
                << Call("BindBufferTarget", b), Call("UnmapBuffer", b) >>, << >>)
           EXCEPT !.cpu[b].pointer = FALSE ]
    ELSE q

\* The first of a set of buffers, in the order the guard gives them out.
First(bufs) == CHOOSE b \in bufs : \A c \in bufs : b <= c

\* ensure_mappings_flushed, over gpu_access.access_mapped_reads()
RECURSIVE ensure_mappings_flushed(_, _)
ensure_mappings_flushed(q, bufs) ==
    IF bufs = { } THEN q
    ELSE ensure_mappings_flushed(ensure_flushed(q, First(bufs)), bufs \ { First(bufs) })

\* Variant: only the first of the buffers is unmapped.
ensure_mappings_unmapped_First(q, bufs) ==
    IF bufs = { } THEN q ELSE temporary_ensure_unmapped(q, First(bufs))

\* ensure_mappings_unmapped, over gpu_access.access_mapped()
RECURSIVE ensure_mappings_unmapped(_, _)
ensure_mappings_unmapped(q, bufs) ==
    IF bufs = { } THEN q
    ELSE ensure_mappings_unmapped(temporary_ensure_unmapped(q, First(bufs)),
                                  bufs \ { First(bufs) })

\* Variant: the mappings are flushed whatever the backend supports.
before_submit_FlushOnly(q, access) ==
    IF take_accesses(q, access) = "Err"
    THEN [ Step(q, "panic", << >>, << [ err |-> "AccessOverlap" ] >>)
           EXCEPT !.panicked = TRUE ]
    ELSE ensure_mappings_flushed(q, access.mapped_reads)

\* Variant: a failed take_accesses is not returned.
before_submit_NoTry(q, access) ==
    IF private_caps.buffer_storage_supported
    THEN ensure_mappings_flushed(q, access.mapped_reads)
    ELSE ensure_mappings_unmapped(q, access_mapped(access))

\* before_submit, and the unwrap() of submit_raw on its result: an Err of
\* take_accesses is returned at once and panics.
before_submit(q, access) ==
    IF take_accesses(q, access) = "Err"
    THEN [ Step(q, "panic", << >>, << [ err |-> "AccessOverlap" ] >>)
           EXCEPT !.panicked = TRUE ]
    ELSE IF private_caps.buffer_storage_supported
         THEN ensure_mappings_flushed(q, access.mapped_reads)
         ELSE ensure_mappings_unmapped(q, access_mapped(access))

\* place_memory_barrier
place_memory_barrier(q) ==
    Step(q, "place_memory_barrier", << Call("MemoryBarrier", 0) >>, << >>)

\* track_mapped_gpu_access: the mapping status of every accessed buffer takes
\* a clone of the fence; the fence it held before is dropped.
RECURSIVE TrackMapped(_, _, _)
TrackMapped(st, acc, fence) ==
    IF acc = { } THEN st
    ELSE LET b   == CHOOSE x \in acc : TRUE
             st1 == [ st EXCEPT !.strong[fence] = @ + 1, !.mapFence[b] = fence ]
             st2 == IF st.mapFence[b] # NoRes THEN Release(st1, st.mapFence[b]) ELSE st1
         IN  TrackMapped(st2, acc \ { b }, fence)

\* place_fence: FenceSync, then frame_handles.make_fence; the Handle goes to
\* the caller.
place_fence(st) ==
    LET f == Fresh
    IN  [ Step(st, "place_fence", << Call("FenceSync", f) >>, << >>)
          EXCEPT !.kind[f] = "fences",
                 !.pools["frame_handles"]["fences"] = Append(@, f),
                 !.strong[f] = 2 ]

\* Variant: the barrier is placed whenever a mapping was accessed.
after_submit_AlwaysBarrier(st, access) ==
    IF private_caps.buffer_storage_supported /\ access_mapped(access) # { }
    THEN LET f   == Fresh
             st1 == place_fence(place_memory_barrier(st))
             trk == TrackMapped([ strong |-> st1.strong, mapFence |-> st1.mapFence ],
                                access_mapped(access), f)
             fin == Release(trk, f)
         IN  [ st1 EXCEPT !.strong = fin.strong, !.mapFence = fin.mapFence ]
    ELSE st

\* after_submit: on a context with buffer storage, if the batch read or wrote
\* a mapping: place_memory_barrier if it wrote one, place_fence, then
\* track_mapped_gpu_access hands a clone of the fence to every accessed
\* mapping; the local Handle is dropped at the end.
after_submit(st, access) ==
    IF private_caps.buffer_storage_supported /\ access_mapped(access) # { }
    THEN LET f   == Fresh
             st0 == IF access.mapped_writes # { } THEN place_memory_barrier(st) ELSE st
             st1 == place_fence(st0)
             trk == TrackMapped([ strong |-> st1.strong, mapFence |-> st1.mapFence ],
                                access_mapped(access), f)
             fin == Release(trk, f)
         IN  [ st1 EXCEPT !.strong = fin.strong, !.mapFence = fin.mapFence ]
    ELSE st

\* The step of signal_fence: FenceSync makes a sync object, which is stored
\* in the fence (`.lock().unwrap().0 = sync`) in place of the one it held.
Stored(st, fence) ==
    [ st EXCEPT !.events = Append(@, [ ev |-> "signal_fence",
                                       calls |-> << Call("FenceSync", fence) >>,
                                       errors |-> << >>,
                                       state |-> st.state, driver |-> st.driver,
                                       locked |-> fence, stored |-> "sync" ]) ]

\* Variant: the sync object is made but the fence keeps the one it held.
signal_fence_NoStore(st, fence) ==
    IF private_caps.sync_supported
    THEN [ st EXCEPT !.events = Append(@, [ ev |-> "signal_fence",
                                            calls |-> << Call("FenceSync", fence) >>,
                                            errors |-> << >>,
                                            state |-> st.state, driver |-> st.driver,
                                            locked |-> NoRes, stored |-> "none" ]),
                     !.pools["frame_handles"]["fences"] = Append(@, fence),
                     !.strong[fence] = @ + 1 ]
    ELSE st

\* Variant: the fence signalled takes the place of the fences tracked so far.
signal_fence_Replace(st, fence) ==
    IF private_caps.sync_supported
    THEN [ Stored(st, fence)
           EXCEPT !.pools["frame_handles"]["fences"] = << fence >>,
                  !.strong[fence] = @ + 1 ]
    ELSE st

\* signal_fence(fence): with sync support FenceSync makes a sync object, the
\* fence is referenced into frame_handles (ref_fence) and, under its lock,
\* takes the new sync object for the one it held; without it nothing happens.
signal_fence(st, fence) ==
    IF private_caps.sync_supported
    THEN [ Stored(st, fence)
           EXCEPT !.pools["frame_handles"]["fences"] = Append(@, fence),
                  !.strong[fence] = @ + 1 ]
    ELSE st

\* Variant: the command buffers are replayed before before_submit runs.
submit_raw_ReplayFirst(q, cmd_buffers, fence, access) ==
    Then(Replay(q, cmd_buffers), LAMBDA q1 :
    Then(IF q1.panicked THEN q1 ELSE before_submit(q1, access), LAMBDA q2 :
    Then(IF q2.panicked THEN q2 ELSE after_submit(q2, access), LAMBDA q3 :
         IF q3.panicked \/ fence = NoRes THEN q3 ELSE signal_fence(q3, fence))))

\* submit_raw(submit_infos, fence, access) on the queue q: before_submit; the
\* command buffers are replayed; after_submit; signal_fence on the fence
\* given, if any. A panic ends it where it happens.
submit_raw(q, cmd_buffers, fence, access) ==
    Then(before_submit(q, access), LAMBDA q1 :
    Then(IF q1.panicked THEN q1 ELSE Replay(q1, cmd_buffers), LAMBDA q2 :
    Then(IF q2.panicked THEN q2 ELSE after_submit(q2, access), LAMBDA q3 :
         IF q3.panicked \/ fence = NoRes THEN q3 ELSE signal_fence(q3, fence))))

\* What a call of submit_raw can be given: a fence of the user's, accesses to
\* mapped buffers the command buffers were recorded with; and what it needs
\* in the model: a resource left for the fence it places.
Submittable(fence, access) ==
    /\ fence # NoRes => kind[fence] = "fences" /\ handles[fence] > 0
    /\ access_mapped(access) \subseteq MappedIn("man")
    /\ (private_caps.buffer_storage_supported /\ access_mapped(access) # { })
           => Free

\* The GPU work a submission issues refers to everything `man`, the manager
\* the command buffers were recorded with, references.
Issued(q) ==
    [ r \in Res |-> pending[r] \/ ( /\ \E i \in DOMAIN q.events : q.events[i].ev = "process"
                                    /\ EntriesIn(pools["man"], r) > 0 ) ]

\* submit_raw as the queue's caller uses it: the caller has pinned `man` with
\* pin_submitted_resources before it submits.
SubmitRaw(cmd_buffers, fence, access, gl_errors) ==
    /\ Submittable(fence, access)
    /\ \A r \in Res : EntriesIn(pools["frame_handles"], r) >= EntriesIn(pools["man"], r)
    /\ \E q \in { submit_raw(Queue(gl_errors), cmd_buffers, fence, access) } :
           /\ count(q.pools["frame_handles"]) <= MaxFrame
           /\ Becomes(q)
           /\ pending' = Issued(q)
    /\ last' = Op("submit", "frame_handles")
    /\ UNCHANGED << holds, handles, destroyed, mapping,
                    private_caps, pvars, dvars, bvars >>

\* wait_fence(fence): the fence is referenced into frame_handles, then waited
\* for.
WaitFence(fence) ==
    /\ kind[fence] = "fences" /\ handles[fence] > 0
    /\ count(pools["frame_handles"]) < MaxFrame
    /\ pools' = [ pools EXCEPT !["frame_handles"]["fences"] = Append(@, fence) ]
    /\ strong' = [ strong EXCEPT ![fence] = @ + 1 ]
    /\ last' = Op("wait_fence", "frame_handles")
    /\ UNCHANGED << kind, holds, handles, mapFence, destroyed, mapping,
                    qvars, pvars, cvars, dvars, mvars >>

\* The timeout wait_fence gives device::wait_fence.
WaitTimeout == 1000000

\* Steps of the clock within one timeout.
MaxTicks == 2

\* One step of the clock.
Tick == (WaitTimeout + MaxTicks - 1) \div MaxTicks

\* Variant: the fence is waited for without a timeout.
wait_fence_NoTimeout(q, fence) ==
    [ q EXCEPT !.pools["frame_handles"]["fences"] = Append(@, fence),
               !.strong[fence] = @ + 1,
               !.events = Append(@, [ ev |-> "wait_fence", calls |-> << >>, errors |-> << >>,
                                      state |-> q.state, driver |-> q.driver,
                                      locked |-> fence, stored |-> "none",
                                      timeout |-> None ]) ]

\* wait_fence(fence) up to its call of device::wait_fence: the fence is
\* referenced into frame_handles and locked, and a shared reference to what
\* it holds is handed over with the timeout 1_000_000.
wait_fence(q, fence) ==
    [ q EXCEPT !.pools["frame_handles"]["fences"] = Append(@, fence),
               !.strong[fence] = @ + 1,
               !.events = Append(@, [ ev |-> "wait_fence", calls |-> << >>, errors |-> << >>,
                                      state |-> q.state, driver |-> q.driver,
                                      locked |-> fence, stored |-> "none",
                                      timeout |-> Some(WaitTimeout) ]) ]

\* The sync object of a fence has signalled: the GPU has completed the
\* commands submitted before it.
Signalled == \A r \in Res : ~pending[r]

\* wait_fence(fence) is called and device::wait_fence begins to wait.
WaitBegin(fence) ==
    /\ wait = Idle
    /\ kind[fence] = "fences" /\ handles[fence] > 0
    /\ count(pools["frame_handles"]) < MaxFrame
    /\ \E q \in { wait_fence(Queue(<< >>), fence) } :
           /\ Becomes(q)
           /\ wait' = [ fence |-> fence, timeout |-> q.events[1].timeout, elapsed |-> 0 ]
    /\ last' = Op("wait_fence", "frame_handles")
    /\ UNCHANGED << holds, handles, destroyed, mapping, pending, private_caps,
                    pvars, dvars, debug_assertions, capacity, adapter, com >>

\* device::wait_fence blocks: the fence has not signalled and the timeout,
\* if there is one, has not passed; time passes, up to the timeout.
Blocked ==
    /\ wait # Idle
    /\ ~Signalled
    /\ wait.timeout # None => wait.elapsed < wait.timeout[1]
    /\ wait' = [ wait EXCEPT !.elapsed =
                     IF wait.timeout = None THEN @
                     ELSE IF @ + Tick > wait.timeout[1] THEN wait.timeout[1] ELSE @ + Tick ]
    /\ last' = Op("blocked", "frame_handles")
    /\ UNCHANGED << pools, kind, holds, handles, strong, mapFence, destroyed, mapping,
                    qvars, pvars, cvars, dvars, cpu, debug_assertions, capacity, adapter, com >>

\* device::wait_fence returns: the fence has signalled, or the timeout has
\* passed, which is logged.
Return ==
    /\ wait # Idle
    /\ Signalled \/ (wait.timeout # None /\ wait.elapsed >= wait.timeout[1])
    /\ wait' = Idle
    /\ last' = [ op |-> "returned", m |-> "frame_handles", rep |-> FALSE,
                 fence |-> wait.fence, waited |-> wait.elapsed,
                 logged |-> IF Signalled THEN << >> ELSE << "timeout" >> ]
    /\ UNCHANGED << pools, kind, holds, handles, strong, mapFence, destroyed, mapping,
                    qvars, pvars, cvars, dvars, cpu, debug_assertions, capacity, adapter, com >>

\* The contexts a closure given to with_gl can leave behind.
Drivers ==
    [ vao : BOOLEAN, index_buffer : 0..MaxBuffer,
      viewports : SUBSET (0..(MaxViewports - 1)),
      scissors : SUBSET (0..(MaxViewports - 1)) ]

\* with_gl(fun)
WithGl(after) ==
    /\ \E ctx \in { with_gl(Queue(<< >>), after) } :
           /\ state' = ctx.state
           /\ driver' = ctx.driver
           /\ events' = ctx.events
    /\ last' = Op("with_gl", "frame_handles")
    /\ UNCHANGED << pools, kind, holds, handles, strong, mapFence, destroyed, mapping,
                    qvars, pvars, dvars, mvars >>

\* The destroy callback cleanup gives clean_with for the kind of r: a buffer
\* with a Temporary mapping is unmapped first, then deleted; a fence deletes
\* its sync object.
destroy(q, r) ==
    CASE kind[r] = "buffers" ->
            Step(IF mapping[r] /\ MappingKind = "Temporary"
                 THEN temporary_ensure_unmapped(q, r) ELSE q,
                 "destroy", << Call("DeleteBuffers", r) >>, << >>)
      [] kind[r] = "fences" -> Step(q, "destroy", << Call("DeleteSync", r) >>, << >>)
      [] kind[r] = "textures" -> Step(q, "destroy", << Call("DeleteTextures", r) >>, << >>)
      [] OTHER -> q

RECURSIVE DestroyAll(_, _)
DestroyAll(q, called) ==
    IF called = << >> THEN q
    ELSE DestroyAll(destroy(q, Head(called)), Tail(called))

\* Variant: the sweep comes first, frame_handles is cleared after it.
cleanup_SweepFirst(q) ==
    Then(clean_with([ pools |-> q.pools, strong |-> q.strong,
                      mapFence |-> q.mapFence, destroyed |-> destroyed,
                      called |-> << >> ], "handles"), LAMBDA st :
    Then(ClearFrom([ strong |-> st.strong, mapFence |-> st.mapFence ],
                   st.pools["frame_handles"], 1), LAMBDA rel :
         [ q   |-> [ DestroyAll(q, st.called)
                     EXCEPT !.pools = [ st.pools EXCEPT !["frame_handles"] = clear(@) ],
                            !.strong = rel.strong,
                            !.mapFence = rel.mapFence ],
           destroyed |-> st.destroyed ]))

\* cleanup() on the queue q: frame_handles.clear(), then
\* share.handles.clean_with(..) with the destroy callbacks.
cleanup(q) ==
    Then(ClearFrom([ strong |-> q.strong, mapFence |-> q.mapFence ],
                   q.pools["frame_handles"], 1), LAMBDA rel :
    Then(clean_with([ pools     |-> [ q.pools EXCEPT !["frame_handles"] = clear(@) ],
                      strong    |-> rel.strong,
                      mapFence  |-> rel.mapFence,
                      destroyed |-> destroyed,
                      called    |-> << >> ], "handles"), LAMBDA st :
         [ q   |-> [ DestroyAll(q, st.called)
                     EXCEPT !.pools = st.pools,
                            !.strong = st.strong,
                            !.mapFence = st.mapFence ],
           destroyed |-> st.destroyed ]))

Cleanup ==
    /\ \E res \in { cleanup(Queue(<< >>)) } :
           /\ Becomes(res.q)
           /\ destroyed' = res.destroyed
    /\ last' = Op("cleanup", "handles")
    /\ UNCHANGED << holds, handles, mapping, pending, private_caps,
                    pvars, dvars, bvars >>

\* The GPU finishes the work submitted so far (what FenceSync with
\* SYNC_GPU_COMMANDS_COMPLETE signals).
GpuComplete ==
    /\ \E r \in Res : pending[r]
    /\ pending' = [ r \in Res |-> FALSE ]
    /\ last' = Op("complete", "frame_handles")
    /\ UNCHANGED << pools, kind, holds, handles, strong, mapFence, destroyed, mapping,
                    max_resource_count, errors, private_caps, pvars, cvars, dvars, mvars >>

\* The kinds of resources created on the queue's device: the kind that can be
\* mapped and the kind submit_raw signals.
QueueKinds == { "buffers", "fences" }

CreateResource ==
    \E k \in QueueKinds, mp \in BOOLEAN : MakePlain("handles", k, mp) /\ ManagerOnly

\* The command buffer is reset: its manager is cleared.
ResetMan == count(pools["man"]) > 0 /\ Clear("man") /\ ManagerOnly

\* A submission of one command buffer, with one draw, recorded with `man`.
Submit ==
    \E fence \in (1..capacity) \cup { NoRes }, acc \in SUBSET MappedIn("man") :
        /\ count(pools["man"]) > 0
        /\ SubmitRaw(<< << Cmd("Draw", 0, 0, None) >> >>, fence, Access(acc, { }), << >>)

InitQueue ==
    /\ HInit
    /\ QInit
    /\ MInit
    /\ debug_assertions
    /\ PInit
    /\ private_caps.array_buffer_supported
    /\ CInit
    /\ DInit

NextQueue ==
    \/ CreateResource
    \/ Drop
    \/ Reference
    \/ ResetMan
    \/ PinSubmittedResources
    \/ Submit
    \/ Cleanup
    \/ GpuComplete

SpecQueue == InitQueue /\ [][NextQueue]_vars

\* ------------------------------------------- every operation of the queue
\* The queue of a context with every capability, with wait_fence and with_gl
\* next to submission, pinning and cleanup. The closure given to with_gl
\* leaves the tracked context as it found it.
InitFrame ==
    /\ HInit
    /\ QInit
    /\ MInit
    /\ debug_assertions
    /\ PInit
    /\ private_caps = [ buffer_storage_supported |-> TRUE, sync_supported |-> TRUE,
                        array_buffer_supported |-> TRUE ]
    /\ CInit
    /\ DInit

Wait == \E fence \in Res : WaitFence(fence)

Inject == WithGl(driver)

NextFrame ==
    \/ CreateResource
    \/ Drop
    \/ Reference
    \/ ResetMan
    \/ PinSubmittedResources
    \/ Submit
    \/ Wait
    \/ Inject
    \/ Cleanup

SpecFrame == InitFrame /\ [][NextFrame]_vars

\* ------------------------------------------------ the submission pipeline
\* Entries of frame_handles between two cleanups where the submission is
\* followed step by step.
MaxPinned == 4

\* The CPU maps b and takes the access to its mapping.
Map(b) ==
    /\ kind[b] = "buffers" /\ mapping[b] /\ handles[b] > 0
    /\ ~cpu[b].access
    /\ cpu' = [ cpu EXCEPT ![b].pointer = TRUE, ![b].access = TRUE ]
    /\ last' = Op("map", "handles")
    /\ UNCHANGED << pools, kind, holds, handles, strong, mapFence, destroyed, mapping,
                    qvars, pvars, cvars, dvars, bvars >>

\* The CPU gives the access back; a mapped buffer stays mapped.
Unlock(b) ==
    /\ cpu[b].access
    /\ cpu' = [ cpu EXCEPT ![b].access = FALSE ]
    /\ last' = Op("unlock", "handles")
    /\ UNCHANGED << pools, kind, holds, handles, strong, mapFence, destroyed, mapping,
                    qvars, pvars, cvars, dvars, bvars >>

\* The CPU writes through the pointer of the mapping of b: the write fails
\* with "not mapped" unless b is mapped; a write to a Persistent mapping is
\* pending until it is flushed.
Write(b) ==
    /\ kind[b] = "buffers" /\ mapping[b] /\ handles[b] > 0
    /\ IF cpu[b].pointer
       THEN /\ cpu' = [ cpu EXCEPT ![b].cpu_wrote = (MappingKind = "Persistent") ]
            /\ last' = [ op |-> "write", m |-> "handles", rep |-> FALSE, buffer |-> b ]
       ELSE /\ cpu' = cpu
            /\ last' = [ op |-> "write: not mapped", m |-> "handles", rep |-> FALSE,
                         buffer |-> b ]
    /\ UNCHANGED << pools, kind, holds, handles, strong, mapFence, destroyed, mapping,
                    qvars, pvars, cvars, dvars, bvars >>

\* One submission as its caller runs it: submit_raw, then the manager the
\* command buffers were recorded with is merged into frame_handles. A panic
\* of submit_raw ends the submission. `last` keeps what was submitted.
Submission(cmd_buffers, fence, access, gl_errors) ==
    /\ Submittable(fence, access)
    /\ \E q1 \in { submit_raw(Queue(gl_errors), cmd_buffers, fence, access) } :
       \E q \in { IF q1.panicked THEN q1
                  ELSE Step(pin_submitted_resources(q1, pools["man"]),
                            "pin_submitted_resources", << >>, << >>) } :
           /\ count(q.pools["frame_handles"]) <= MaxPinned
           /\ Becomes(q)
           /\ pending' = Issued(q)
    /\ last' = [ op |-> "submission", m |-> "frame_handles", rep |-> FALSE,
                 cmd_buffers |-> cmd_buffers, fence |-> fence, access |-> access,
                 gl_errors |-> gl_errors ]
    /\ UNCHANGED << holds, handles, destroyed, mapping,
                    private_caps, pvars, dvars, bvars >>

\* The device has created two mapped buffers and a fence, the user holds a
\* Handle of each, and a command buffer that uses both buffers is recorded.
Recorded ==
    /\ pools = [ m \in Managers |->
                   CASE m = "handles" ->
                          [ NewManager EXCEPT !["buffers"] = << 1, 2 >>, !["fences"] = << 3 >> ]
                     [] m = "man" -> [ NewManager EXCEPT !["buffers"] = << 1, 2 >> ]
                     [] OTHER -> NewManager ]
    /\ kind = [ r \in Res |-> IF r \in { 1, 2 } THEN "buffers"
                              ELSE IF r = 3 THEN "fences" ELSE "none" ]
    /\ holds = [ r \in Res |-> NoRes ]
    /\ handles = [ r \in Res |-> IF r <= 3 THEN 1 ELSE 0 ]
    /\ strong = [ r \in Res |-> IF r \in { 1, 2 } THEN 3 ELSE IF r = 3 THEN 2 ELSE 0 ]
    /\ mapFence = [ r \in Res |-> NoRes ]
    /\ destroyed = [ r \in Res |-> 0 ]
    /\ last = [ op |-> "ref", m |-> "man", rep |-> FALSE ]
    /\ mapping = [ r \in Res |-> r \in { 1, 2 } ]
    /\ cpu = [ r \in Res |-> [ pointer |-> FALSE, cpu_wrote |-> FALSE, access |-> FALSE ] ]
    /\ capacity = MaxPipeline
    /\ adapter = Unopened(FALSE, FALSE)
    /\ com = NoCom
    /\ wait = Idle

InitPipeline ==
    /\ Recorded
    /\ QInit
    /\ private_caps.array_buffer_supported
    /\ debug_assertions = TRUE
    /\ PInit
    /\ CInit
    /\ DInit

CpuMap == \E b \in Res : Map(b)

CpuUnlock == \E b \in Res : Unlock(b)

CpuWrite == \E b \in Res : Write(b)

\* A submission of one command buffer with two draws, recorded with `man`.
SubmitMapped ==
    \E fence \in (1..capacity) \cup { NoRes }, reads \in SUBSET MappedIn("man"),
       writes \in SUBSET MappedIn("man") :
        /\ count(pools["man"]) > 0
        /\ Submission(<< << Cmd("Draw", 0, 0, None), Cmd("Draw", 0, 0, None) >> >>,
                      fence, Access(reads, writes), << >>)

NextPipeline ==
    \/ CpuMap
    \/ CpuUnlock
    \/ CpuWrite
    \/ SubmitMapped
    \/ Cleanup

SpecPipeline == InitPipeline /\ [][NextPipeline]_vars

\* ------------------------------------------------------- clean_vec alone
\* The pools clean_vec is given: up to MaxVec entries, each with its strong
\* count; an entry that occurs twice has two Arcs at least.
Entry == 1..MaxVec

Vectors == UNION { [ 1..n -> Entry ] : n \in 0..MaxVec }

Occ(seq, e) == Cardinality({ i \in DOMAIN seq : seq[i] = e })

InitCleanVec ==
    /\ HInit
    /\ QInit
    /\ MInit
    /\ debug_assertions
    /\ private_caps = [ buffer_storage_supported |-> TRUE, sync_supported |-> TRUE,
                        array_buffer_supported |-> TRUE ]
    /\ CInit
    /\ DInit
    /\ given \in Vectors
    /\ counts \in [ Entry -> 1..2 ]
    /\ \A e \in Entry : counts[e] >= Occ(given, e)
    /\ cleaned = [ done |-> FALSE, vector |-> << >>, called |-> << >>, dropped |-> << >> ]

CleanVecStep ==
    /\ ~cleaned.done
    /\ LET res == clean_vec(given, counts)
       IN  cleaned' = [ done |-> TRUE, vector |-> res.vector,
                        called |-> res.called, dropped |-> res.dropped ]
    /\ UNCHANGED << hvars, qvars, cvars, dvars, mvars, given, counts >>

NextCleanVec == CleanVecStep

SpecCleanVec == InitCleanVec /\ [][NextCleanVec]_vars

\* --------------------------------------------------- the state cache alone
\* Commands in one command buffer, command buffers in one submission.
MaxCmds == 1

MaxBufs == 2

\* The commands that touch what the cache tracks.
Commands ==
    { Cmd("BindIndexBuffer", b, 0, None) : b \in 0..MaxBuffer }
        \cup { Cmd(op, n, 0, None) : op \in { "SetViewports", "SetScissors" },
                                     n \in 1..MaxViewports }

CmdBuffers == UNION { [ 1..n -> Commands ] : n \in 0..MaxCmds }

Submissions == UNION { [ 1..n -> CmdBuffers ] : n \in 1..MaxBufs }

InitState ==
    /\ HInit
    /\ QInit
    /\ MInit
    /\ PInit
    /\ private_caps.buffer_storage_supported
    /\ private_caps.sync_supported
    /\ CInit
    /\ DInit

SubmitCommands ==
    \E cmd_buffers \in Submissions : SubmitRaw(cmd_buffers, NoRes, Access({ }, { }), << >>)

InjectGl == \E after \in Drivers : WithGl(after)

NextState ==
    \/ SubmitCommands
    \/ InjectGl

SpecState == InitState /\ [][NextState]_vars

\* ------------------------------------------------- cleanup of mapped buffers
\* The user maps buffers, drops Handles and resets the command buffer between
\* submissions and cleanups; the backend has buffer storage or not.
InitDestroy ==
    /\ Recorded
    /\ QInit
    /\ private_caps.array_buffer_supported
    /\ private_caps.sync_supported
    /\ debug_assertions = TRUE
    /\ PInit
    /\ CInit
    /\ DInit

\* A submission that uses no mapping.
SubmitPlain ==
    \E fence \in { NoRes, 3 } :
        /\ count(pools["man"]) > 0
        /\ Submission(<< << Cmd("Draw", 0, 0, None) >> >>, fence, Access({ }, { }), << >>)

NextDestroy ==
    \/ CpuMap
    \/ CpuUnlock
    \/ Drop
    \/ ResetMan
    \/ SubmitPlain
    \/ Cleanup

SpecDestroy == InitDestroy /\ [][NextDestroy]_vars

\* ------------------------------------------ index buffers that are destroyed
\* Command buffers bind one of the recorded buffers as index buffer, or none;
\* the user drops Handles and resets the command buffer, and the queue cleans
\* up.
SubmitIndex ==
    \E b \in { 0 } \cup MappedIn("man") :
        Submission(<< << Cmd("BindIndexBuffer", b, 0, None), Cmd("DrawIndexed", 0, 0, None) >> >>,
                   NoRes, Access({ }, { }), << >>)

NextBind ==
    \/ SubmitIndex
    \/ Drop
    \/ ResetMan
    \/ Cleanup

SpecBind == InitDestroy /\ [][NextBind]_vars

\* --------------------------------------------- viewport and scissor counts
\* Command buffers as a recorder that checks nothing could hand them over:
\* SetViewports with any number of viewports up to one past the limit and
\* as many depth ranges, one less or one more; SetScissors likewise. The
\* queue is cleaned up between two submissions.
MaxViewCmds == 2

ViewCommands ==
    UNION { { [ op |-> "SetViewports", n |-> n, base |-> 0, instances |-> None,
                depth_ranges |-> dr ] :
                  dr \in { n - 1, n, n + 1 } \cap (0..(MaxViewports + 1)) } :
            n \in 0..(MaxViewports + 1) }
        \cup { Cmd("SetScissors", n, 0, None) : n \in 0..(MaxViewports + 1) }

SubmitViews ==
    \E n \in 1..MaxViewCmds : \E buf \in [ 1..n -> ViewCommands ] :
        /\ count(pools["frame_handles"]) = 0
        /\ Submission(<< buf >>, NoRes, Access({ }, { }), << >>)

NextViews ==
    \/ SubmitViews
    \/ Cleanup

SpecViews == InitDestroy /\ [][NextViews]_vars

\* ------------------------------------------------------ opening the adapter
\* Entries of one request and queues asked of one entry.
MaxDescs == 2

MaxQueues == 2

\* Calls of open the model follows.
MaxOpens == 2

QueueType == { "General", "Graphics", "Compute", "Transfer" }

\* queue_descs: &[(&QueueFamily, QueueType, u32)]; the adapter has one family.
QueueDescs ==
    UNION { [ 1..n -> [ queue_type : QueueType, num_queues : 0..MaxQueues ] ] : n \in 0..MaxDescs }

\* The closure raw_queue: a queue on the adapter's share with its own cache.
raw_queue(vao) ==
    [ share |-> "share", vao |-> vao, state |-> State_new, frame_handles |-> << >>,
      max_resource_count |-> Some(999999) ]

\* The Gpu open returns: num_queues queues pushed to the vector of queue_type.
Gpu(queue_type, num_queues, vao) ==
    [ t \in QueueType |-> IF t = queue_type THEN [ i \in 1..num_queues |-> raw_queue(vao) ]
                                            ELSE << >> ]

\* The permanent state and the array object open sets in the context; the
\* array object generated is named after the call of open, 0 without array
\* objects.
Permanent(ad, caps) ==
    LET vao == IF caps.array_buffer_supported THEN Len(ad.gpus) + 1 ELSE 0
    IN  [ vao |-> vao,
          calls |-> (IF ad.srgb_color THEN << Call("Enable FRAMEBUFFER_SRGB", 1) >> ELSE << >>)
                    \o << Call("PixelStorei UNPACK_ALIGNMENT", 1) >>
                    \o (IF ~ad.is_embedded THEN << Call("Enable PROGRAM_POINT_SIZE", 1) >>
                                            ELSE << >>)
                    \o (IF caps.array_buffer_supported
                        THEN << Call("GenVertexArrays", 1), Call("BindVertexArray", vao) >>
                        ELSE << >>) ]

\* Variant: the number of queues asked is not asserted.
open_AnyNumber(ad, caps, queue_descs) ==
    IF Len(queue_descs) # 1
    THEN [ panic |-> TRUE, calls |-> << >>, gpu |-> Gpu("General", 0, 0) ]
    ELSE LET p == Permanent(ad, caps)
         IN  [ panic |-> FALSE, calls |-> p.calls,
               gpu |-> Gpu(queue_descs[1].queue_type, queue_descs[1].num_queues, p.vao) ]

\* Adapter::open(queue_descs): the two assertions, then the native calls and
\* the Gpu.
open(ad, caps, queue_descs) ==
    IF Len(queue_descs) # 1 \/ ~(queue_descs[1].num_queues <= 1)
    THEN [ panic |-> TRUE, calls |-> << >>, gpu |-> Gpu("General", 0, 0) ]
    ELSE LET p == Permanent(ad, caps)
         IN  [ panic |-> FALSE, calls |-> p.calls,
               gpu |-> Gpu(queue_descs[1].queue_type, queue_descs[1].num_queues, p.vao) ]

\* adapter.open(queue_descs)
Open(queue_descs) ==
    /\ Len(adapter.gpus) < MaxOpens
    /\ \E o \in { open(adapter, private_caps, queue_descs) } :
           /\ adapter' = [ adapter EXCEPT !.gpus = IF o.panic THEN @ ELSE Append(@, o.gpu) ]
           /\ driver' = NativeAll(driver, o.calls, FALSE)
           /\ last' = [ op |-> "open", m |-> "frame_handles", rep |-> FALSE,
                        queue_descs |-> queue_descs, panic |-> o.panic, calls |-> o.calls ]
    /\ UNCHANGED << pools, kind, holds, handles, strong, mapFence, destroyed, mapping,
                    qvars, pvars, state, events, dvars, cpu, debug_assertions, capacity, com, wait >>

\* The adapter of any context, not opened.
InitOpen ==
    /\ HInit
    /\ QInit
    /\ PInit
    /\ DInit
    /\ cpu = [ r \in Res |-> [ pointer |-> FALSE, cpu_wrote |-> FALSE, access |-> FALSE ] ]
    /\ debug_assertions = TRUE
    /\ capacity = MaxRes
    /\ com = NoCom
    /\ wait = Idle
    /\ private_caps.buffer_storage_supported
    /\ private_caps.sync_supported
    /\ adapter \in { Unopened(s, e) : s \in BOOLEAN, e \in BOOLEAN }
    /\ state = State_new
    /\ driver = [ vao |-> FALSE, index_buffer |-> 0, viewports |-> { }, scissors |-> { } ]
    /\ events = << >>

NextOpen == \E queue_descs \in QueueDescs : Open(queue_descs)

SpecOpen == InitOpen /\ [][NextOpen]_vars

\* ------------------------------------------------- dx12: WeakPtr (com.rs)
\* One COM object and the WeakPtrs of a program. A WeakPtr is its raw
\* pointer: 0 is null, 1 is the object. com.count is the object's reference
\* count, 0 once it is released; com.ub records that a released object or a
\* null pointer was dereferenced, after which the count is anything.
MaxPtrs == 3

MaxRefs == 3

HResults == { "S_OK", "E_NOINTERFACE" }

\* WeakPtr::null
null == 0

\* WeakPtr::from_raw
from_raw(ptr) == ptr

\* WeakPtr::as_mut_ptr: the pointer, by value.
as_mut_ptr(w) == w

\* Clone::clone, and a copy: WeakPtr(self.0).
clone(w) == w

\* What dereferencing the undefined gives: any count.
Undefined(c) == { [ c EXCEPT !.ub = TRUE, !.count = n ] : n \in 0..MaxRefs }

\* as_unknown: debug_assert!(!self.is_null()), then the pointer as IUnknown.
\* "panic", "undefined" for a null pointer dereferenced or an object
\* released before, or "ok".
as_unknown(c, w) ==
    IF w = null THEN (IF debug_assertions THEN "panic" ELSE "undefined")
    ELSE IF c.count = 0 THEN "undefined" ELSE "ok"

\* IUnknown::QueryInterface(riid, ppv) on a live object: with S_OK the
\* reference count is incremented and the interface pointer written to *ppv,
\* otherwise null is written.
QueryInterface(c, hr) ==
    [ com |-> IF hr = "S_OK" THEN [ c EXCEPT !.count = @ + 1 ] ELSE c,
      ppv |-> IF hr = "S_OK" THEN 1 ELSE null ]

\* cast: obj is a null WeakPtr; QueryInterface is given the address of the
\* temporary that obj.as_mut_ptr() returns, a copy of obj's pointer, and
\* writes there; obj itself is returned as it was, with hr.
cast(c, w, hr) ==
    LET u == as_unknown(c, w)
        obj == null
        temporary == as_mut_ptr(obj)
    IN  IF u = "panic" THEN { [ com |-> c, obj |-> null, hr |-> "panic" ] }
        ELSE IF u = "undefined"
        THEN { [ com |-> c2, obj |-> o, hr |-> hr ] : c2 \in Undefined(c), o \in { null, 1 } }
        ELSE LET q == QueryInterface(c, hr)
             IN  { [ com |-> q.com, obj |-> obj, hr |-> hr ] }

\* WeakPtr::destroy: self.as_unknown().Release().
WeakPtr_destroy(c, w) ==
    LET u == as_unknown(c, w)
    IN  IF u = "panic" THEN { c }
        ELSE IF u = "undefined" THEN Undefined(c)
        ELSE { [ c EXCEPT !.count = @ - 1 ] }

ComOp(name, i, hr) == [ op |-> name, m |-> "com", rep |-> FALSE, i |-> i, hr |-> hr ]

\* let w = ptrs[i].clone(), or a copy of it
ComClone(i) ==
    /\ Len(com.ptrs) < MaxPtrs
    /\ com' = [ com EXCEPT !.ptrs = Append(@, clone(com.ptrs[i])) ]
    /\ last' = ComOp("clone", i, "none")
    /\ UNCHANGED << pools, kind, holds, handles, strong, mapFence, destroyed, mapping,
                    qvars, pvars, cvars, dvars, cpu, debug_assertions, capacity, adapter, wait >>

\* ptrs[i].destroy()
ComDestroy(i) ==
    /\ \E c \in WeakPtr_destroy(com, com.ptrs[i]) : com' = c
    /\ last' = ComOp("destroy", i, as_unknown(com, com.ptrs[i]))
    /\ UNCHANGED << pools, kind, holds, handles, strong, mapFence, destroyed, mapping,
                    qvars, pvars, cvars, dvars, cpu, debug_assertions, capacity, adapter, wait >>

\* let (w, hr) = ptrs[i].cast::<U>()
ComCast(i, hr) ==
    /\ Len(com.ptrs) < MaxPtrs
    /\ com.count < MaxRefs
    /\ \E r \in cast(com, com.ptrs[i], hr) :
           /\ com' = [ r.com EXCEPT !.ptrs = IF r.hr = "panic" THEN @ ELSE Append(@, r.obj) ]
           /\ last' = ComOp("cast", i, r.hr)
    /\ UNCHANGED << pools, kind, holds, handles, strong, mapFence, destroyed, mapping,
                    qvars, pvars, cvars, dvars, cpu, debug_assertions, capacity, adapter, wait >>

\* A COM object just created, held by one WeakPtr made from its raw pointer;
\* whoever else holds it has its own references.
InitCom ==
    /\ HInit
    /\ QInit
    /\ PInit
    /\ DInit
    /\ CInit
    /\ cpu = [ r \in Res |-> [ pointer |-> FALSE, cpu_wrote |-> FALSE, access |-> FALSE ] ]
    /\ debug_assertions \in BOOLEAN
    /\ capacity = MaxRes
    /\ adapter = Unopened(FALSE, FALSE)
    /\ wait = Idle
    /\ private_caps.buffer_storage_supported
    /\ private_caps.sync_supported
    /\ private_caps.array_buffer_supported
    /\ \E n \in 1..2 : com = [ count |-> n, ptrs |-> << from_raw(1) >>, ub |-> FALSE ]

NextCom ==
    \/ \E i \in DOMAIN com.ptrs : ComClone(i)
    \/ \E i \in DOMAIN com.ptrs : ComDestroy(i)
    \/ \E i \in DOMAIN com.ptrs : \E hr \in HResults : ComCast(i, hr)

SpecCom == InitCom /\ [][NextCom]_vars

\* ------------------------------------------------------- waiting for a fence
\* The queue submits, waits for the user's fence and cleans up; while a wait
\* is under way the queue, borrowed by it, does nothing else. The calling
\* context keeps running and the driver's clock keeps going.
WaitOn == WaitBegin(3)

NextWait ==
    \/ (wait = Idle /\ SubmitPlain)
    \/ (wait = Idle /\ Cleanup)
    \/ WaitOn
    \/ GpuComplete
    \/ Blocked
    \/ Return

SpecWait == InitDestroy /\ [][NextWait]_vars /\ WF_vars(Blocked) /\ WF_vars(Return)

\* ------------------------------------------------------------ the replay
\* Commands in one command buffer where the replay is followed.
MaxReplay == 2

ReplayCommands == { Cmd("Draw", 0, 0, None), Cmd("BindIndexBuffer", 1, 0, None) }

ReplayBuffers == UNION { [ 1..n -> ReplayCommands ] : n \in 0..MaxReplay }

ReplaySubmissions == UNION { [ 1..n -> ReplayBuffers ] : n \in 1..MaxBufs }

\* The error flag each command leaves in the context: no error at all, or one
\* command that leaves INVALID_ENUM or OUT_OF_MEMORY.
ErrorFlags ==
    { << >> } \cup { [ i \in 1..n |-> IF i = n THEN code ELSE 0 ] :
                       n \in 1..(MaxBufs * MaxReplay), code \in { 1280, 1285 } }

InitReplay ==
    /\ Recorded
    /\ QInit
    /\ private_caps = [ buffer_storage_supported |-> TRUE, sync_supported |-> TRUE,
                        array_buffer_supported |-> TRUE ]
    /\ debug_assertions \in BOOLEAN
    /\ PInit
    /\ CInit
    /\ DInit

\* The first submission of the queue.
SubmitReplay ==
    \E cmd_buffers \in ReplaySubmissions, fence \in { NoRes, 3 },
       reads \in SUBSET { 1 }, gl_errors \in ErrorFlags :
        /\ last.op = "ref"
        /\ Submission(cmd_buffers, fence, Access(reads, { }), gl_errors)

NextReplay ==
    \/ SubmitReplay
    \/ Cleanup

SpecReplay == InitReplay /\ [][NextReplay]_vars

\* ------------------------------------------------------- reset_state alone
\* The caches reset_state can be given.
States ==
    [ vao : BOOLEAN,
      index_buffer : { None } \cup { Some(b) : b \in 0..MaxBuffer },
      num_viewports : 0..MaxViewports,
      num_scissors : 0..MaxViewports ]

InitReset ==
    /\ HInit
    /\ QInit
    /\ MInit
    /\ debug_assertions
    /\ PInit
    /\ private_caps.buffer_storage_supported
    /\ private_caps.sync_supported
    /\ state \in States
    /\ driver = [ vao |-> FALSE, index_buffer |-> 0, viewports |-> { }, scissors |-> { } ]
    /\ events = << >>
    /\ DInit

ResetStep ==
    /\ events = << >>
    /\ LET ctx == DoReset([ state |-> state, driver |-> driver, events |-> << >> ])
       IN  /\ state' = ctx.state
           /\ driver' = ctx.driver
           /\ events' = ctx.events
    /\ UNCHANGED << hvars, qvars, pvars, dvars, mvars >>

NextReset == ResetStep

SpecReset == InitReset /\ [][NextReset]_vars

\* ----------------------------------------------------------- process alone
\* Instance counts and base offsets of the draw commands.
MaxInstances == 2

MaxBase == 5

Instances ==
    { None } \cup { Some(<< num, base >>) : num \in 1..MaxInstances, base \in 0..MaxBase }

DrawCommands ==
    { Cmd("Draw", 0, 0, i) : i \in Instances }
        \cup { Cmd("DrawIndexed", 0, bv, i) : bv \in 0..MaxBase, i \in Instances }

InitDraw ==
    /\ HInit
    /\ QInit
    /\ MInit
    /\ debug_assertions
    /\ PInit
    /\ private_caps = [ buffer_storage_supported |-> TRUE, sync_supported |-> TRUE,
                        array_buffer_supported |-> TRUE ]
    /\ CInit
    /\ features \in Features
    /\ cmd \in DrawCommands
    /\ issued = [ done |-> FALSE, calls |-> << >>, errors |-> << >> ]

ProcessStep ==
    /\ ~issued.done
    /\ LET res == process(state, cmd, features)
       IN  issued' = [ done |-> TRUE, calls |-> res.calls, errors |-> res.errors ]
    /\ UNCHANGED << hvars, qvars, pvars, cvars, mvars, features, cmd >>

NextDraw == ProcessStep

SpecDraw == InitDraw /\ [][NextDraw]_vars

\* ================================================================ claims
\* Number of Arcs of r held inside the user's Handle values of other
\* resources (a view's source, a pipeline state's program), given the
\* numbers h of Handle values held.
OwnerHandles(h, r) ==
    Cardinality({ e \in Res \X (1..MaxHandles) : holds[e[1]] = r /\ e[2] <= h[e[1]] })

\* Some Handle to r exists: one of its own, or one carried by another Handle.
Held(r) == handles[r] > 0 \/ OwnerHandles(handles, r) > 0

\* r is referenced by a tracking manager (recording set or frame set).
Tracked(r) == EntriesIn(pools["man"], r) > 0 \/ EntriesIn(pools["frame_handles"], r) > 0

\* C1: over create, reference, merge, clear, Handle drop and sweep, the destroy
\* callback is invoked at most once per resource, only by a sweep, and only
\* when the entry of the swept manager is the sole reference: no Handle of the
\* resource, no Handle carried by another Handle, no mapping and no entry of
\* another manager refers to it.
C1_DestroyedOnceWhenSole ==
    [][ \A r \in Res :
          /\ destroyed'[r] <= 1
          /\ destroyed'[r] # destroyed[r] =>
               /\ last'.op = "clean_with"
               /\ EntriesIn(pools[last'.m], r) = 1
               /\ \A m \in Managers \ { last'.m } : EntriesIn(pools[m], r) = 0
               /\ ~Held(r)
               /\ \A b \in Res : mapFence[b] # r ]_vars

C1_Witness ==
    /\ last.op = "clean_with"
    /\ \E r \in Res : destroyed[r] = 1
    /\ \E q \in Res : Held(q) /\ EntriesIn(pools["handles"], q) = 1

\* C2: no destroy callback fires for a resource while a Handle to it is held;
\* once no Handle is left and no tracking set refers to it, the next sweep
\* fires the callback; so it fires exactly once per resource.
C2_ExactlyOnceAfterLastHandle ==
    \A r \in Res :
        /\ destroyed[r] <= 1
        /\ Held(r) => destroyed[r] = 0
        /\ ( /\ last.op = "clean_with"
             /\ kind[r] # "none"
             /\ ~Held(r)
             /\ ~Tracked(r) ) => destroyed[r] = 1

C2_Witness ==
    /\ last.op = "clean_with"
    /\ \E r, q \in Res :
          /\ destroyed[r] = 1
          /\ destroyed[q] = 0 /\ ~Held(q) /\ EntriesIn(pools["frame_handles"], q) > 0

\* C6: clear() leaves the manager with count() = 0 and invokes no destroy
\* callback; every other manager is untouched, every resource loses exactly the
\* references the cleared manager held, and a resource with a Handle or an
\* entry elsewhere stays alive, its entry in the sweeping pool in place.
C6_ClearReleasesOnly ==
    [][ last'.op = "clear" =>
          /\ count(pools'[last'.m]) = 0
          /\ destroyed' = destroyed
          /\ \A m \in Managers \ { last'.m } : pools'[m] = pools[m]
          /\ \A r \in Res :
                /\ strong'[r] = strong[r] - EntriesIn(pools[last'.m], r)
                /\ ( Held(r) \/ \E m \in Managers \ { last'.m } :
                                   EntriesIn(pools[m], r) > 0 ) => strong'[r] > 0 ]_vars

C6_Witness ==
    /\ last.op = "clear"
    /\ last.m = "frame_handles"
    /\ \E r \in Res : ~Held(r) /\ EntriesIn(pools["man"], r) > 0 /\ destroyed[r] = 0
    /\ \E q \in Res : kind[q] # "none" /\ strong[q] = 1

\* C7: extend appends to every pool of the receiver the entries of the same
\* pool of the other manager, in order, and leaves the other manager as it
\* was: count(self) grows by count(other), and every resource gains one
\* reference per entry taken over.
C7_ExtendAppends ==
    [][ last'.op = "extend" =>
          LET self == last'.m
          IN  /\ \A m \in Managers \ { self } : pools'[m] = pools[m]
              /\ count(pools'[self]) = count(pools[self]) + count(pools["man"])
              /\ \A k \in Kinds :
                    /\ Len(pools'[self][k]) = Len(pools[self][k]) + Len(pools["man"][k])
                    /\ SubSeq(pools'[self][k], 1, Len(pools[self][k])) = pools[self][k]
              /\ \A r \in Res :
                    /\ EntriesIn(pools'[self], r) =
                           EntriesIn(pools[self], r) + EntriesIn(pools["man"], r)
                    /\ strong'[r] = strong[r] + EntriesIn(pools["man"], r) ]_vars

C7_Witness ==
    /\ last.op = "extend"
    /\ count(pools["frame_handles"]) > count(pools["man"])
    /\ \E k \in Kinds : Len(pools["man"][k]) > 0 /\ k = "fences"

\* Number of Arcs of r inside Handle values, given who holds what (hd) and the
\* numbers of Handle values (h).
OwnerHandlesOf(hd, h, r) ==
    Cardinality({ e \in Res \X (1..MaxHandles) : hd[e[1]] = r /\ e[2] <= h[e[1]] })

AllEntries(p, r) ==
    EntriesIn(p["handles"], r) + EntriesIn(p["man"], r) + EntriesIn(p["frame_handles"], r)

\* The lifecycle of the reference count, with n the count right after create.
LifecycleStep(n) ==
    \A r \in Res :
        /\ (kind[r] = "none" /\ kind'[r] # "none") => strong'[r] = n /\ handles'[r] = 1
        /\ kind[r] # "none" =>
              strong'[r] - strong[r] =
                    (AllEntries(pools', r) - AllEntries(pools, r))
                  + (handles'[r] - handles[r])
                  + (OwnerHandlesOf(holds', handles', r) - OwnerHandlesOf(holds, handles, r))
        /\ destroyed'[r] # destroyed[r] =>
              /\ last'.op = "clean_with"
              /\ strong[r] = 1
              /\ EntriesIn(pools[last'.m], r) = 1
        /\ (last'.op = "clean_with" /\ handles[r] > 0) => destroyed'[r] = 0

\* C9 as stated: create returns a Handle with reference count 1.
C9_Original == [][ LifecycleStep(1) ]_vars

\* C9, amended: create leaves the reference count at 2 (the pool entry and the
\* Handle returned); it changes by exactly the references added to or removed
\* from tracking sets and Handle values; the resource is destroyed only by a
\* sweep that finds the count at 1, the pool entry; a sweep while a Handle is
\* held destroys nothing of it.
C9_Lifecycle == [][ LifecycleStep(2) ]_vars

C9_Witness ==
    /\ last.op = "clean_with"
    /\ \E r \in Res : /\ strong[r] = 2 /\ handles[r] = 1 /\ ~Tracked(r)
                      /\ destroyed[r] = 0
    /\ \E q \in Res : destroyed[q] = 1

\* The view or pipeline state o is pinned in a tracking set by ref_rtv,
\* ref_dsv or ref_pso.
Pinned(o) == kind[o] \in { "psos", "rtvs", "dsvs" } /\ Tracked(o)

\* C10: a view or pipeline state o holds a Handle of its source or program s,
\* and s holds none back. While a Handle of o exists, or o is pinned through
\* ref_rtv, ref_dsv or ref_pso, s is not destroyed; once no Handle of either
\* is left and neither is tracked, a sweep destroys both.
C10_OwnershipOneWay ==
    \A o \in Res :
        holds[o] # NoRes =>
            LET s == holds[o]
            IN  /\ holds[s] = NoRes
                /\ kind[s] \in SourceKinds(kind[o])
                /\ (handles[o] > 0 \/ Pinned(o)) => destroyed[s] = 0 /\ strong[s] >= 2
                /\ ( /\ last.op = "clean_with"
                     /\ ~Held(o) /\ ~Held(s)
                     /\ ~Tracked(o) /\ ~Tracked(s) ) => destroyed[o] = 1 /\ destroyed[s] = 1

C10_Witness ==
    /\ last.op = "clean_with"
    /\ \E o \in Res :
          /\ kind[o] = "rtvs"
          /\ ~Held(o) /\ ~Held(holds[o])
          /\ Pinned(o)
          /\ destroyed[holds[o]] = 0

\* C5: one run of clean_vec leaves in the pool exactly the entries that had a
\* reference besides the pool's, as a multiset; the destroy callback is called
\* once on every entry that had none, and on no other; what is dropped is
\* what the callback was called on.
C5_SweepKeepsReferenced ==
    cleaned.done =>
        \A e \in Entry :
            /\ Occ(cleaned.vector, e) = IF counts[e] > 1 THEN Occ(given, e) ELSE 0
            /\ Occ(cleaned.called, e) = IF counts[e] = 1 THEN Occ(given, e) ELSE 0
            /\ Occ(cleaned.dropped, e) = Occ(cleaned.called, e)

C5_Witness ==
    /\ cleaned.done
    /\ Len(given) = 3
    /\ counts[given[1]] = 1
    /\ counts[given[2]] = 2
    /\ counts[given[3]] = 1
    /\ cleaned.vector = << given[2] >>

\* C3: a resource that submitted, not yet completed GPU work refers to has not
\* been destroyed by cleanup().
C3_PendingNeverDestroyed ==
    \A r \in Res : pending[r] => destroyed[r] = 0

\* C4: a sweep that directly follows a sweep (cleanup after cleanup: the
\* frame set is empty already, so the second cleanup is the sweep alone)
\* invokes no destroy callback and leaves every pool and every reference
\* count as it was, also when a swept buffer held a fence through its mapping.
C4_SecondSweepDestroysNothing ==
    [][ (last.op \in { "clean_with", "cleanup" } /\ last'.op = last.op) =>
            /\ destroyed' = destroyed
            /\ pools' = pools
            /\ strong' = strong
            /\ mapFence' = mapFence ]_vars

C4_Witness ==
    /\ last.op = "cleanup"
    /\ last.rep
    /\ \E b, f \in Res :
          /\ mapping[b] /\ destroyed[b] = 1
          /\ kind[f] = "fences" /\ destroyed[f] = 0 /\ strong[f] = 0

\* C8: the error is logged at most once. It is logged by the first
\* pin_submitted_resources that finds count() above the cap, which sets
\* max_resource_count to None; from then on no step logs or sets it back,
\* cleanup included.
C8_LoggedAtMostOnce ==
    [][ /\ errors' \in { errors, errors + 1 }
        /\ errors' <= 1
        /\ (max_resource_count' = None) <=> (errors' = 1)
        /\ max_resource_count = None =>
              max_resource_count' = None /\ errors' = errors
        /\ errors' # errors =>
              /\ last'.op = "pin"
              /\ max_resource_count = Some(ResourceCap)
              /\ count(pools'["frame_handles"]) > ResourceCap
        /\ ( /\ last'.op = "pin"
             /\ max_resource_count # None
             /\ count(pools'["frame_handles"]) > ResourceCap ) => errors' = errors + 1 ]_vars

C8_Witness ==
    /\ last.op = "pin"
    /\ last.rep
    /\ errors = 1
    /\ max_resource_count = None
    /\ count(pools["man"]) = 1
    /\ count(pools["frame_handles"]) = ResourceCap + 2

\* The context is as a command buffer expects it: the queue's array object
\* bound (where array objects exist), no index buffer, every viewport and
\* scissor neutral.
DriverDefault(drv) ==
    /\ private_caps.array_buffer_supported => drv.vao
    /\ drv.index_buffer = 0
    /\ drv.viewports = { }
    /\ drv.scissors = { }

\* C12: whatever the closure given to with_gl did to the context, the
\* reset_state that comes next (the first step of the next queue operation)
\* leaves the context in the expected default.
C12_ResetAfterInjection ==
    [][ (last.op = "with_gl" /\ events' # events) =>
            /\ events'[1].ev = "reset_state"
            /\ DriverDefault(events'[1].driver) ]_vars

\* The steps of the operation that begins, preceded by the last step of the
\* operation before it.
Joined == (IF events = << >> THEN << >> ELSE << events[Len(events)] >>) \o events'

\* C13: a reset_state that directly follows a reset_state (no process, no
\* closure, no flush in between) issues no native call and leaves the cache
\* and the context as they were.
C13_SecondResetIssuesNothing ==
    [][ events' # events =>
          \A i \in 1..(Len(Joined) - 1) :
              (Joined[i].ev = "reset_state" /\ Joined[i + 1].ev = "reset_state") =>
                  /\ Joined[i + 1].calls = << >>
                  /\ Joined[i + 1].state = Joined[i].state
                  /\ Joined[i + 1].driver = Joined[i].driver ]_vars

C13_Witness ==
    /\ Len(events) >= 2
    /\ events[1].ev = "reset_state"
    /\ Len(events[1].calls) = 2
    /\ events[2].ev = "reset_state"
    /\ events[2].calls = << >>

\* The native calls of one entry point among calls.
CallsOf(calls, fn) == { i \in DOMAIN calls : calls[i].fn = fn }

\* C14: from any cache, reset_state leaves the array object marked bound and
\* the index buffer recorded as Some(0); it binds the array object exactly
\* when it was not marked bound and array objects are supported, and binds
\* "no index buffer" exactly when the cache did not record Some(0).
C14_ResetBindsDefaults ==
    [][ events' # events =>
          LET calls == events'[1].calls
          IN  /\ state'.vao
              /\ state'.index_buffer = Some(0)
              /\ state'.num_viewports = state.num_viewports
              /\ state'.num_scissors = state.num_scissors
              /\ Cardinality(CallsOf(calls, "BindVertexArray")) =
                    IF ~state.vao /\ private_caps.array_buffer_supported THEN 1 ELSE 0
              /\ Cardinality(CallsOf(calls, "BindBuffer")) =
                    IF state.index_buffer = Some(0) THEN 0 ELSE 1
              /\ \A i \in CallsOf(calls, "BindBuffer") : calls[i].n = 0 ]_vars

C14_Witness ==
    /\ Len(events) = 1
    /\ events[1].ev = "reset_state"
    /\ ~private_caps.array_buffer_supported
    /\ CallsOf(events[1].calls, "BindVertexArray") = { }
    /\ CallsOf(events[1].calls, "BindBuffer") # { }
    /\ state.num_viewports = 2

ViewCalls == { "Viewport", "ViewportArrayv", "Scissor", "ScissorArrayv" }

\* C15: when the command buffer before left n viewports (scissors) set, the
\* reset_state that follows issues the matching reset call over all n: the
\* single-entry call for n = 1, the array call for n > 1.
C15_ResetClearsViewports ==
    \A i \in 2..Len(events) :
        ( /\ events[i].ev = "reset_state"
          /\ events[i - 1].ev = "process"
          /\ events[i - 1].calls # << >>
          /\ events[i - 1].calls[1].fn \in ViewCalls ) =>
            LET c == events[i - 1].calls[1]
            IN  \E j \in DOMAIN events[i].calls :
                    events[i].calls[j].fn = c.fn /\ events[i].calls[j].n = c.n

\* C16: SetViewports / SetScissors with n entries issues the single-entry call
\* for n = 1 and the array call for n > 1, and the cache records n afterwards.
C16_CacheRecordsCount ==
    \A i \in DOMAIN events :
        ( /\ events[i].ev = "process"
          /\ events[i].calls # << >>
          /\ events[i].calls[1].fn \in ViewCalls ) =>
            LET c == events[i].calls[1]
            IN  /\ c.fn \in { "Viewport", "Scissor" } <=> c.n = 1
                /\ c.fn \in { "Viewport", "ViewportArrayv" } =>
                       events[i].state.num_viewports = c.n
                /\ c.fn \in { "Scissor", "ScissorArrayv" } =>
                       events[i].state.num_scissors = c.n

\* C17: every process step comes after a reset_state of the same queue
\* operation with no closure and no flush in between, and finds the cache
\* with the array object marked bound and the index buffer known.
C17_ProcessOnlyWhenClean ==
    \A i \in DOMAIN events :
        events[i].ev = "process" =>
            /\ \E j \in 1..(i - 1) :
                  /\ events[j].ev = "reset_state"
                  /\ \A k \in (j + 1)..(i - 1) : events[k].ev \notin { "fun", "flush" }
            /\ events[i - 1].state.vao
            /\ events[i - 1].state.index_buffer # None

C17_Witness ==
    /\ last.op = "submit"
    /\ Len(events) = 4
    /\ events[1].ev = "reset_state"
    /\ CallsOf(events[1].calls, "BindVertexArray") # { }
    /\ events[1].driver.scissors # { }
    /\ events[2].ev = "process"
    /\ events[4].ev = "process"

\* The draw that a command asks for: instance count, base vertex, base
\* instance (1, 0, 0 where the command has none).
Requested(c) ==
    IF c.instances = None THEN << 1, c.base, 0 >>
    ELSE << c.instances[1][1], c.base, c.instances[1][2] >>

\* C18: an instanced Draw with a nonzero base instance, on a context with
\* draw_instanced and without draw_instanced_base, logs an error and issues no
\* native call.
C18_NonzeroBaseRejected ==
    ( /\ issued.done
      /\ cmd.op = "Draw"
      /\ cmd.instances # None
      /\ features.draw_instanced
      /\ ~features.draw_instanced_base ) =>
        IF cmd.instances[1][2] # 0
        THEN issued.calls = << >> /\ Len(issued.errors) = 1
        ELSE Len(issued.calls) = 1 /\ issued.errors = << >>

C18_Witness ==
    /\ issued.done
    /\ cmd.op = "Draw"
    /\ cmd.instances = Some(<< 2, 5 >>)
    /\ features.draw_instanced
    /\ ~features.draw_instanced_base
    /\ issued.calls = << >>
    /\ issued.errors # << >>

\* C19: a Draw issues at most one native call: the base-instance call where
\* instancing and base instances are supported, else the instanced call where
\* instancing is supported and the base is 0, and the plain call exactly for a
\* Draw without instances. A call issued draws the instance count and base
\* requested; where none is issued an error is logged.
C19_DrawSelection ==
    (issued.done /\ cmd.op = "Draw") =>
        /\ Len(issued.calls) <= 1
        /\ issued.calls = << >> <=> issued.errors # << >>
        /\ \A i \in DOMAIN issued.calls : issued.calls[i].n = Requested(cmd)
        /\ cmd.instances = None =>
              issued.calls = << DrawCall("DrawArrays", 1, 0, 0) >>
        /\ cmd.instances # None =>
              LET fns == { issued.calls[i].fn : i \in DOMAIN issued.calls }
              IN  fns = IF features.draw_instanced /\ features.draw_instanced_base
                        THEN { "DrawArraysInstancedBaseInstance" }
                        ELSE IF features.draw_instanced /\ cmd.instances[1][2] = 0
                        THEN { "DrawArraysInstanced" }
                        ELSE { }

C19_Witness ==
    /\ issued.done
    /\ cmd.op = "Draw"
    /\ cmd.instances = Some(<< 2, 0 >>)
    /\ ~features.draw_instanced_base
    /\ issued.calls = << DrawCall("DrawArraysInstanced", 2, 0, 0) >>

\* The entry points of DrawIndexed, most capable first, with the feature each
\* needs and whether it can express the draw requested.
IndexedEntries(ft, c) ==
    IF c.instances # None
    THEN << [ fn |-> "DrawElementsInstancedBaseVertexBaseInstance",
              ok |-> ft.draw_indexed_instanced_base ],
            [ fn |-> "DrawElementsInstancedBaseVertex",
              ok |-> ft.draw_indexed_instanced_base_vertex /\ Requested(c)[3] = 0 ],
            [ fn |-> "DrawElementsInstanced",
              ok |-> /\ ft.draw_indexed_instanced
                     /\ Requested(c)[3] = 0 /\ Requested(c)[2] = 0 ] >>
    ELSE << [ fn |-> "DrawElementsBaseVertex", ok |-> ft.draw_indexed_base ],
            [ fn |-> "DrawElements", ok |-> Requested(c)[2] = 0 ] >>

\* C20: a DrawIndexed issues at most one native call, the most capable entry
\* point that is supported and can express the base vertex and base instance
\* requested; the call draws exactly what was requested; where no entry point
\* qualifies an error is logged and nothing is issued.
C20_IndexedSelection ==
    (issued.done /\ cmd.op = "DrawIndexed") =>
        LET entries == IndexedEntries(features, cmd)
            fit == { i \in DOMAIN entries : entries[i].ok }
        IN  /\ Len(issued.calls) <= 1
            /\ issued.calls = << >> <=> issued.errors # << >>
            /\ \A i \in DOMAIN issued.calls : issued.calls[i].n = Requested(cmd)
            /\ fit = { } <=> issued.calls = << >>
            /\ fit # { } =>
                  issued.calls[1].fn =
                      entries[CHOOSE i \in fit : \A j \in fit : i <= j].fn

C20_Witness ==
    /\ issued.done
    /\ cmd.op = "DrawIndexed"
    /\ cmd.base = 5
    /\ cmd.instances = Some(<< 2, 0 >>)
    /\ ~features.draw_indexed_instanced_base
    /\ ~features.draw_indexed_instanced_base_vertex
    /\ features.draw_indexed_instanced
    /\ issued.calls = << >>

\* C11: only cleanup removes entries from frame_handles. Every other
\* operation (submit_raw with after_submit and signal_fence,
\* pin_submitted_resources, wait_fence, with_gl, and whatever the user does
\* with Handles) leaves every pool of frame_handles as it was or longer, the
\* entries it had still in front; cleanup leaves it empty.
C11_FrameSetOnlyClearedByCleanup ==
    [][ /\ last'.op # "cleanup" =>
              \A k \in Kinds :
                  /\ Len(pools'["frame_handles"][k]) >= Len(pools["frame_handles"][k])
                  /\ SubSeq(pools'["frame_handles"][k], 1, Len(pools["frame_handles"][k]))
                         = pools["frame_handles"][k]
        /\ last'.op \in { "with_gl", "make", "drop", "ref", "clear" } =>
              pools'["frame_handles"] = pools["frame_handles"]
        /\ last'.op = "cleanup" => count(pools'["frame_handles"]) = 0 ]_vars

C11_Witness ==
    /\ last.op = "wait_fence"
    /\ Len(pools["frame_handles"]["fences"]) = 2
    /\ Len(pools["frame_handles"]["buffers"]) = 1
    /\ state.vao

\* The steps of the last queue operation that are ev.
StepsOf(ev) == { i \in DOMAIN events : events[i].ev = ev }

\* The commands of a submission, in the order its command buffers give them.
RECURSIVE Flatten(_)
Flatten(cmd_buffers) ==
    IF cmd_buffers = << >> THEN << >>
    ELSE Head(cmd_buffers) \o Flatten(Tail(cmd_buffers))

\* The commands that leave an error flag behind, by their place in the
\* submission.
Flagged(sub) ==
    { n \in DOMAIN sub.gl_errors : sub.gl_errors[n] # 0 /\ n <= Len(Flatten(sub.cmd_buffers)) }

\* C21: in a debug build the error flag is queried after every processed
\* command, and a flag other than "no error" ends the submission there: the
\* panic carries that command and the decoded kind of the flag, no later
\* command is processed, no barrier or fence is placed, the external fence
\* is not signalled. In a release build the flag is never queried and no
\* flag ends a submission: every command is processed.
C21_ErrorFlagAborts ==
    last.op = "submission" =>
        LET cmds == Flatten(last.cmd_buffers)
            bad  == Flagged(last)
        IN  IF debug_assertions
            THEN /\ \A i \in StepsOf("process") : CallsOf(events[i].calls, "GetError") # { }
                 /\ bad = { } =>
                       StepsOf("panic") = { } /\ Cardinality(StepsOf("process")) = Len(cmds)
                 /\ \A n \in bad :
                       /\ Cardinality(StepsOf("process")) = n
                       /\ events[Len(events)].ev = "panic"
                       /\ events[Len(events) - 1].ev = "process"
                       /\ events[Len(events) - 1].cmd = cmds[n]
                       /\ events[Len(events)].errors =
                              << [ err |-> IF last.gl_errors[n] = 1280 THEN "InvalidEnum"
                                           ELSE "OutOfMemory",
                                   cmd |-> cmds[n] ] >>
                       /\ StepsOf("place_memory_barrier") = { }
                       /\ StepsOf("place_fence") = { }
                       /\ StepsOf("signal_fence") = { }
                       /\ Len(pools["frame_handles"]["fences"]) = 0
            ELSE /\ \A i \in DOMAIN events : CallsOf(events[i].calls, "GetError") = { }
                 /\ StepsOf("panic") = { }
                 /\ Cardinality(StepsOf("process")) = Len(cmds)

\* A debug build: the first command of the second command buffer leaves
\* OUT_OF_MEMORY; the submission had a fence to signal and a mapping read.
C21_Witness ==
    /\ last.op = "submission"
    /\ debug_assertions
    /\ Len(last.cmd_buffers) = 2
    /\ Len(last.cmd_buffers[1]) = 1
    /\ Len(last.cmd_buffers[2]) = 2
    /\ last.gl_errors = << 0, 1285 >>
    /\ last.fence = 3
    /\ last.access.mapped_reads = { 1 }
    /\ Cardinality(StepsOf("process")) = 2
    /\ events[Len(events)].ev = "panic"
    /\ events[Len(events)].errors[1].err = "OutOfMemory"

\* What a replay of cmd_buffers is to do, step by step: for each command
\* buffer a reset_state, then its commands.
RECURSIVE InOrder(_)
InOrder(cmd_buffers) ==
    IF cmd_buffers = << >> THEN << >>
    ELSE << [ op |-> "reset_state" ] >> \o Head(cmd_buffers) \o InOrder(Tail(cmd_buffers))

\* What the last queue operation replayed: its reset_state steps and the
\* commands of its process steps, in the order they ran.
Replayed ==
    LET steps == SelectSeq(events, LAMBDA e : e.ev \in { "reset_state", "process" })
    IN  [ i \in DOMAIN steps |->
            IF steps[i].ev = "process" THEN steps[i].cmd ELSE [ op |-> "reset_state" ] ]

\* C23: a submission replays its command buffers in the order given: one
\* reset_state before the first command of each command buffer, then its
\* commands, each once, in recorded order, nothing of another command buffer
\* in between. A submission that is aborted has replayed a prefix of this.
C23_ReplayInOrder ==
    last.op = "submission" =>
        LET todo == InOrder(last.cmd_buffers)
        IN  /\ Len(Replayed) <= Len(todo)
            /\ Replayed = SubSeq(todo, 1, Len(Replayed))
            /\ StepsOf("panic") = { } => Replayed = todo

\* Two command buffers of two commands each, all replayed, the second not
\* the first read backwards or forwards.
C23_Witness ==
    /\ last.op = "submission"
    /\ Len(last.cmd_buffers) = 2
    /\ last.cmd_buffers[1] = << Cmd("Draw", 0, 0, None), Cmd("BindIndexBuffer", 1, 0, None) >>
    /\ last.cmd_buffers[2] = << Cmd("BindIndexBuffer", 1, 0, None), Cmd("BindIndexBuffer", 1, 0, None) >>
    /\ StepsOf("panic") = { }
    /\ Cardinality(StepsOf("reset_state")) = 2
    /\ Cardinality(StepsOf("process")) = 4
    /\ events[4].ev = "reset_state"

\* The steps of the last queue operation that flush or unmap a mapping.
MappingSteps == StepsOf("ensure_flushed") \cup StepsOf("ensure_unmapped")

\* The steps of the last queue operation that replay: reset_state, process.
ReplaySteps == StepsOf("reset_state") \cup StepsOf("process")

\* C22: in a submission every flush and every unmap of a mapping comes before
\* the first reset_state and the first command; the memory barrier and the
\* fence are placed after the last command, the barrier before the fence;
\* the external fence is signalled after all of these.
C22_FlushBeforeFenceAfter ==
    last.op = "submission" =>
        /\ \A i \in ReplaySteps :
              /\ \A j \in MappingSteps : j < i
              /\ \A j \in StepsOf("place_memory_barrier") \cup StepsOf("place_fence") : i < j
              /\ \A j \in StepsOf("signal_fence") : i < j
        /\ \A i \in StepsOf("place_memory_barrier"), j \in StepsOf("place_fence") : i < j
        /\ \A i \in StepsOf("place_fence"), j \in StepsOf("signal_fence") : i < j
        /\ \A i \in StepsOf("place_memory_barrier"), j \in StepsOf("signal_fence") : i < j

\* A submission that flushes a mapping, processes its two commands, places
\* barrier and fence and signals the external fence.
C22_Witness ==
    /\ last.op = "submission"
    /\ StepsOf("ensure_flushed") = { 1 }
    /\ Cardinality(StepsOf("process")) = 2
    /\ StepsOf("place_memory_barrier") # { }
    /\ StepsOf("place_fence") # { }
    /\ StepsOf("signal_fence") # { }
    /\ last.fence = 3

\* The CPU holds an access to a mapped buffer the batch of sub uses: the
\* Access Guard cannot be built.
Busy(sub) == \E b \in access_mapped(sub.access) : cpu[b].access

\* C24: a submission whose Access Guard cannot be built fails with that
\* error and does nothing else: no flush, no unmap, no reset_state, no
\* command, no barrier, no fence placed or signalled, no resource pinned; the
\* cache, the context, the mappings and frame_handles are as before. No
\* other submission fails this way.
C24_GuardFailureDoesNothing ==
    [][ last'.op = "submission" =>
          IF Busy(last')
          THEN /\ Len(events') = 1
               /\ events'[1].ev = "panic"
               /\ events'[1].calls = << >>
               /\ events'[1].errors = << [ err |-> "AccessOverlap" ] >>
               /\ UNCHANGED << state, driver, pools, strong, mapFence, cpu, kind,
                               max_resource_count >>
          ELSE \A i \in DOMAIN events' :
                   events'[i].ev = "panic" => events'[i].errors[1].err # "AccessOverlap"
      ]_vars

\* The submission reads a mapping with a write to flush and has a fence to
\* signal, while the CPU holds the access to the mapping.
C24_Witness ==
    /\ last.op = "submission"
    /\ last.fence = 3
    /\ last.access = Access({ 1 }, { })
    /\ cpu[1].access
    /\ cpu[1].cpu_wrote
    /\ cpu[1].pointer
    /\ Len(events) = 1
    /\ events[1].ev = "panic"

\* The native calls fn on buffer b among the steps evs.
CallsOn(evs, fn, b) ==
    { << i, k >> \in (DOMAIN evs) \X (1..2) :
          k \in DOMAIN evs[i].calls /\ evs[i].calls[k] = Call(fn, b) }

\* Before its commands run, the submission flushes each of the mappings in
\* `flushed` that has a write pending, with one FlushMappedBufferRange, and
\* flushes nothing else, where the backend has buffer storage; elsewhere it
\* unmaps every mapped buffer of the batch, with one UnmapBuffer, leaving the
\* pointer null. One path only is taken.
FlushOrUnmap(flushed) ==
    IF private_caps.buffer_storage_supported
    THEN /\ StepsOf("ensure_unmapped")' = { }
         /\ \A b \in Res :
               IF b \in flushed /\ cpu[b].cpu_wrote
               THEN /\ Cardinality(CallsOn(events', "FlushMappedBufferRange", b)) = 1
                    /\ ~cpu'[b].cpu_wrote
                    /\ \A c \in CallsOn(events', "FlushMappedBufferRange", b) :
                           \A i \in ReplaySteps' : c[1] < i
               ELSE /\ CallsOn(events', "FlushMappedBufferRange", b) = { }
                    /\ cpu'[b] = cpu[b]
    ELSE /\ StepsOf("ensure_flushed")' = { }
         /\ \A b \in Res :
               IF b \in access_mapped(last'.access) /\ cpu[b].pointer
               THEN /\ Cardinality(CallsOn(events', "UnmapBuffer", b)) = 1
                    /\ ~cpu'[b].pointer
                    /\ \A c \in CallsOn(events', "UnmapBuffer", b) :
                           \A i \in ReplaySteps' : c[1] < i
               ELSE /\ CallsOn(events', "UnmapBuffer", b) = { }
                    /\ cpu'[b] = cpu[b]

\* C25 as stated: the mappings flushed are those of every buffer the batch
\* touches, read or written.
C25_FlushesEveryTouched ==
    [][ (last'.op = "submission" /\ ~Busy(last')) =>
            FlushOrUnmap(access_mapped(last'.access)) ]_vars

\* C25: before the commands of a submission run, a backend with buffer
\* storage flushes every Persistent mapping the batch reads that has a CPU
\* write pending, with exactly one coherence call for its buffer; a mapping
\* with no write pending is not flushed again, and a mapping the batch only
\* writes is not flushed. A backend without buffer storage unmaps every
\* mapped buffer the batch touches and its pointer becomes null. A
\* submission takes one of the two paths, never both.
C25_FlushesReadOrUnmaps ==
    [][ (last'.op = "submission" /\ ~Busy(last')) =>
            FlushOrUnmap(last'.access.mapped_reads) ]_vars

\* Buffer 1 is read and flushed once; buffer 2 is written by the batch only
\* and its pending write stays pending.
C25_Witness ==
    /\ last.op = "submission"
    /\ private_caps.buffer_storage_supported
    /\ last.access = Access({ 1 }, { 2 })
    /\ Cardinality(CallsOn(events, "FlushMappedBufferRange", 1)) = 1
    /\ CallsOn(events, "FlushMappedBufferRange", 2) = { }
    /\ ~cpu[1].cpu_wrote
    /\ cpu[2].cpu_wrote
    /\ Cardinality(StepsOf("process")) = 2

\* The fences the last queue operation placed.
Placed == { events[i].calls[1].n : i \in StepsOf("place_fence") }

\* After the commands of the last submission, where `fenced` holds and a
\* mapping was read or written: one barrier if a mapping was written, none
\* otherwise; then one fence, pooled in frame_handles, its Handles held by
\* the mappings of exactly the buffers accessed. Elsewhere no barrier and no
\* fence.
BarrierAndFence(fenced) ==
    LET acc == access_mapped(last.access)
    IN  IF fenced /\ acc # { }
        THEN /\ Cardinality(StepsOf("place_fence")) = 1
             /\ Cardinality(StepsOf("place_memory_barrier")) =
                    IF last.access.mapped_writes # { } THEN 1 ELSE 0
             /\ \A i \in StepsOf("place_fence") :
                   /\ \A j \in StepsOf("place_memory_barrier") : j < i
                   /\ \A j \in StepsOf("process") : j < i
             /\ \A j \in StepsOf("place_memory_barrier"), k \in StepsOf("process") : k < j
             /\ \A f \in Placed :
                   /\ kind[f] = "fences"
                   /\ EntriesIn(pools["frame_handles"], f) = 1
                   /\ \A b \in Res : mapFence[b] = f <=> b \in acc
                   /\ strong[f] = 1 + Cardinality(acc)
        ELSE /\ StepsOf("place_fence") = { }
             /\ StepsOf("place_memory_barrier") = { }

\* C26 as stated: on every backend.
C26_FencePlacedOnAnyBackend ==
    (last.op = "submission" /\ ~Busy(last)) => BarrierAndFence(TRUE)

\* C26: on a backend with buffer storage, after the commands of a submission
\* that read or wrote a mapping, a memory barrier is placed if and only if a
\* mapping was written, then exactly one fence however many buffers were
\* accessed, and that fence is attached to every buffer with a mapped read
\* or write and to no other; if no mapping was accessed, or the backend has
\* no buffer storage, no barrier and no fence are placed.
C26_FencePlacedWithStorage ==
    (last.op = "submission" /\ ~Busy(last)) =>
        BarrierAndFence(private_caps.buffer_storage_supported)

\* One mapping read, another written: one barrier, one fence on both.
C26_Witness ==
    /\ last.op = "submission"
    /\ last.access = Access({ 1 }, { 2 })
    /\ Cardinality(StepsOf("place_memory_barrier")) = 1
    /\ Cardinality(Placed) = 1
    /\ mapFence[1] \in Placed
    /\ mapFence[2] = mapFence[1]
    /\ last.fence = NoRes

\* The fences frame_handles pools after the step that it did not before, in
\* the order they were pooled.
NewFences ==
    SubSeq(pools'["frame_handles"]["fences"],
           Len(pools["frame_handles"]["fences"]) + 1,
           Len(pools'["frame_handles"]["fences"]))

\* C27: a submission given a fence on a backend with sync objects makes one
\* new sync object after its last command and after the fence it places
\* itself, stores it in the fence given under that fence's lock, and pins
\* the fence in frame_handles, where it stays until a cleanup. Given no
\* fence, or on a backend without sync objects, nothing is made or stored,
\* the references to the fence are as before and frame_handles pools no
\* fence but the one after_submit placed.
C27_ExternalFenceSignalled ==
    [][ /\ (last'.op = "submission" /\ ~Busy(last')) =>
              IF last'.fence # NoRes /\ private_caps.sync_supported
              THEN /\ Cardinality(StepsOf("signal_fence")') = 1
                   /\ \A i \in StepsOf("signal_fence")' :
                         /\ events'[i].calls = << Call("FenceSync", last'.fence) >>
                         /\ events'[i].locked = last'.fence
                         /\ events'[i].stored = "sync"
                         /\ \A j \in StepsOf("process")' \cup StepsOf("place_fence")' : j < i
                   /\ strong'[last'.fence] = strong[last'.fence] + 1
                   /\ EntriesIn(pools'["frame_handles"], last'.fence) =
                          EntriesIn(pools["frame_handles"], last'.fence) + 1
                   /\ NewFences = [ i \in 1..Cardinality(Placed') |->
                                      CHOOSE f \in Placed' : TRUE ] \o << last'.fence >>
              ELSE /\ StepsOf("signal_fence")' = { }
                   /\ \A r \in Res : handles[r] > 0 /\ kind[r] = "fences" =>
                         /\ strong'[r] = strong[r]
                         /\ EntriesIn(pools'["frame_handles"], r) =
                                EntriesIn(pools["frame_handles"], r)
                   /\ NewFences = [ i \in 1..Cardinality(Placed') |->
                                      CHOOSE f \in Placed' : TRUE ]
        /\ last'.op # "cleanup" =>
              \A r \in Res : EntriesIn(pools'["frame_handles"], r) >=
                                 EntriesIn(pools["frame_handles"], r)
      ]_vars

\* The fence given is signalled after the fence the submission placed for
\* the mapping it read.
C27_Witness ==
    /\ last.op = "submission"
    /\ last.fence = 3
    /\ private_caps.sync_supported
    /\ last.access = Access({ 2 }, { })
    /\ Cardinality(Placed) = 1
    /\ \E i \in StepsOf("signal_fence") : events[i].locked = 3 /\ i = Len(events) - 1
    /\ pools["frame_handles"]["fences"] = << mapFence[2], 3 >>
    /\ strong[3] = 3

\* C28: on a backend without buffer storage, a submission unmaps every
\* mapped buffer its batch uses exactly once, before its first reset_state
\* and command, and maps nothing afterwards: at the end of the submission
\* the buffer is not mapped. A CPU write to such a buffer that follows the
\* submission without a new map fails with "not mapped".
C28_TemporaryUnmappedOnce ==
    [][ /\ ( /\ last'.op = "submission"
             /\ ~Busy(last')
             /\ ~private_caps.buffer_storage_supported ) =>
              \A b \in access_mapped(last'.access) :
                  /\ Cardinality(CallsOn(events', "UnmapBuffer", b)) =
                         IF cpu[b].pointer THEN 1 ELSE 0
                  /\ \A c \in CallsOn(events', "UnmapBuffer", b) :
                         \A i \in ReplaySteps' : c[1] < i
                  /\ CallsOn(events', "MapBuffer", b) = { }
                  /\ ~cpu'[b].pointer
        /\ ( /\ last.op = "submission"
             /\ ~Busy(last)
             /\ ~private_caps.buffer_storage_supported
             /\ last'.op \in { "write", "write: not mapped" }
             /\ last'.buffer \in access_mapped(last.access) ) =>
              /\ last'.op = "write: not mapped"
              /\ cpu' = cpu
      ]_vars

\* Buffer 1 was mapped, the submission that read it unmapped it before its
\* two commands, and the write that follows fails.
C28_Witness ==
    /\ ~private_caps.buffer_storage_supported
    /\ last.op = "write: not mapped"
    /\ last.buffer = 1
    /\ Cardinality(CallsOn(events, "UnmapBuffer", 1)) = 1
    /\ Cardinality(StepsOf("process")) = 2
    /\ events[1].ev = "ensure_unmapped"
    /\ ~cpu[1].pointer

C30_ClearThenSweep ==
    [][ last'.op = "cleanup" =>
          /\ count(pools'["frame_handles"]) = 0
          /\ \A r \in Res :
                ( /\ EntriesIn(pools["handles"], r) = 1
                  /\ strong[r] = 1 + EntriesIn(pools["frame_handles"], r) ) =>
                      /\ destroyed'[r] = destroyed[r] + 1
                      /\ EntriesIn(pools'["handles"], r) = 0
                      /\ kind[r] = "buffers" =>
                            Cardinality(CallsOn(events', "DeleteBuffers", r)) = 1
          /\ \A r \in Res : \A d \in CallsOn(events', "DeleteBuffers", r) :
                /\ destroyed'[r] = destroyed[r] + 1
                /\ IF cpu[r].pointer /\ MappingKind = "Temporary"
                   THEN /\ Cardinality(CallsOn(events', "UnmapBuffer", r)) = 1
                        /\ \A u \in CallsOn(events', "UnmapBuffer", r) : u[1] < d[1]
                        /\ ~cpu'[r].pointer
                   ELSE CallsOn(events', "UnmapBuffer", r) = { }
      ]_vars

\* Buffer 1, mapped on a backend without buffer storage, was pinned by a
\* submission and then dropped by the user and by the command buffer: the
\* cleanup unmaps it and deletes it.
C30_Witness ==
    /\ last.op = "cleanup"
    /\ MappingKind = "Temporary"
    /\ destroyed[1] = 1
    /\ destroyed[2] = 0
    /\ Len(events) = 2
    /\ events[1].ev = "ensure_unmapped"
    /\ events[1].calls[2] = Call("UnmapBuffer", 1)
    /\ events[2].calls = << Call("DeleteBuffers", 1) >>
    /\ ~cpu[1].pointer
    /\ pending[1]

\* C31: no buffer is destroyed while it is mapped: whenever the destroy
\* callback of cleanup has deleted a native buffer, the buffer was not
\* mapped when DeleteBuffers was called, be its mapping Temporary or
\* Persistent.
C31_NeverDestroyedMapped ==
    [][ last'.op = "cleanup" =>
          \A r \in Res : CallsOn(events', "DeleteBuffers", r) # { } => ~cpu'[r].pointer
      ]_vars

\* C32: a fence wait always returns. wait_fence waits with the timeout
\* 1_000_000 and never longer; a wait under way ends, and one that ends
\* before the fence has signalled has waited the whole timeout and logs it;
\* no step of a wait stores anything in the fence.
C32_WaitReturns ==
    /\ [](wait # Idle => /\ wait.timeout = Some(WaitTimeout)
                         /\ wait.elapsed <= WaitTimeout)
    /\ (wait # Idle) ~> (wait = Idle)
    /\ [][ /\ (wait # Idle /\ wait' = Idle) =>
                 /\ last'.op = "returned"
                 /\ last'.logged # << >> <=> ~Signalled
                 /\ ~Signalled => last'.waited = WaitTimeout
           /\ (wait # Idle \/ wait' # Idle) =>
                 \A i \in DOMAIN events' :
                     events'[i].ev = "wait_fence" /\ events'[i].stored = "none"
         ]_vars

\* A wait for the fence of a submission the GPU has not completed returned
\* after the whole timeout, and logged it.
C32_Witness ==
    /\ last.op = "returned"
    /\ last.fence = 3
    /\ last.waited = WaitTimeout
    /\ last.logged = << "timeout" >>
    /\ \E r \in Res : pending[r]
    /\ EntriesIn(pools["frame_handles"], 3) = 2

\* The queues of a Gpu, over its four vectors.
QueuesOf(gpu) == { << t, i >> : t \in QueueType, i \in 1..MaxQueues } \cap
                 UNION { { << t, i >> : i \in DOMAIN gpu[t] } : t \in QueueType }

\* open panicked on this request.
Rejected == last.op = "open" /\ last.panic

InRange(c) ==
    /\ c.n \in 1..MaxViewports
    /\ c.op = "SetViewports" => c.depth_ranges = c.n

\* C34: one command sets between 1 and max_viewports viewports (scissors). A
\* SetViewports or SetScissors with no entry or with more than max_viewports,
\* and a SetViewports whose depth ranges are not as many as its viewports,
\* fails its assertion: the submission ends there with no native call of the
\* command, the context as the step before left it; every command before it
\* ran, and every viewport or scissor call covers 1..max_viewports entries.
C34_ViewportCountInRange ==
    last.op = "submission" =>
        LET cmds == Flatten(last.cmd_buffers)
            bad  == { n \in DOMAIN cmds : ~InRange(cmds[n]) }
        IN  /\ \A i \in StepsOf("process") :
                  /\ InRange(events[i].cmd)
                  /\ \A k \in DOMAIN events[i].calls :
                        events[i].calls[k].fn # "GetError" =>
                            events[i].calls[k].n = events[i].cmd.n
            /\ bad = { } => StepsOf("panic") = { } /\ Cardinality(StepsOf("process")) = Len(cmds)
            /\ \A n \in bad : (\A m \in bad : n <= m) =>
                  /\ Cardinality(StepsOf("process")) = n - 1
                  /\ events[Len(events)].ev = "panic"
                  /\ events[Len(events)].errors[1].cmd = cmds[n]
                  /\ events[Len(events)].calls = << >>
                  /\ events[Len(events)].driver = events[Len(events) - 1].driver
                  /\ driver = events[Len(events) - 1].driver

\* A submission set one viewport, then asked for one more scissor than
\* max_viewports: the viewport is set, the scissor command failed.
C34_Witness ==
    /\ last.op = "submission"
    /\ Len(Flatten(last.cmd_buffers)) = 2
    /\ Flatten(last.cmd_buffers)[1].op = "SetViewports"
    /\ InRange(Flatten(last.cmd_buffers)[1])
    /\ Flatten(last.cmd_buffers)[2] = Cmd("SetScissors", MaxViewports + 1, 0, None)
    /\ events[Len(events)].ev = "panic"
    /\ driver.viewports # { }
    /\ driver.scissors = { }

\* C35: setting n viewports (scissors) disables every other one: after a
\* SetViewports (SetScissors) command with n entries has run, no viewport
\* (scissor) of index n or more that an earlier command set is still set in
\* the context.
C35_SetDisablesOthers ==
    \A i \in StepsOf("process") :
        /\ events[i].cmd.op = "SetViewports" =>
              events[i].driver.viewports \subseteq 0..(events[i].cmd.n - 1)
        /\ events[i].cmd.op = "SetScissors" =>
              events[i].driver.scissors \subseteq 0..(events[i].cmd.n - 1)

\* C36: a WeakPtr owns no reference. A clone or copy leaves the reference
\* count as it is; destroy on a live object is exactly one Release; destroy
\* through any copy of a WeakPtr whose object is released acts on the
\* released object; a cast that succeeds gives a new WeakPtr to the object
\* with a reference of its own, which its own destroy gives back.
C36_WeakPtrOwnsNothing ==
    [][ /\ last'.op = "clone" =>
              /\ com'.count = com.count
              /\ com'.ptrs = Append(com.ptrs, com.ptrs[last'.i])
        /\ (last'.op = "destroy" /\ last'.hr = "ok") => com'.count = com.count - 1
        /\ (last'.op = "destroy" /\ com.ptrs[last'.i] # null /\ com.count = 0) => com'.ub
        /\ (last'.op = "cast" /\ last'.hr = "S_OK" /\ ~com'.ub) =>
              /\ com'.count = com.count + 1
              /\ com'.ptrs = Append(com.ptrs, 1)
      ]_vars

\* C37: command buffers are replayed isolated from each other. Whatever was
\* replayed or injected before, the context that the first command of a
\* command buffer finds, right after reset_state, is the one default: the
\* queue's array object bound, no index buffer, no viewport or scissor left
\* over. Two histories then cannot be told apart by the next command buffer.
C37_ReplayIsolated ==
    \A i \in 1..(Len(events) - 1) :
        (events[i].ev = "reset_state" /\ events[i + 1].ev = "process") =>
            /\ DriverDefault(events[i].driver)
            /\ events[i].state.vao
            /\ events[i].state.index_buffer = Some(0)

\* C38: the cache never lies. Between two operations of the queue, an index
\* buffer the cache records is the one bound in the context, and an array
\* object the cache records as bound is bound there, where array objects
\* exist; where the context may differ the cache holds None or false.
C38_CacheNeverLies ==
    /\ state.index_buffer # None => driver.index_buffer = state.index_buffer[1]
    /\ (state.vao /\ private_caps.array_buffer_supported) => driver.vao

\* C39: every fence the queue places itself is pooled in the manager that
\* cleanup sweeps, and no fence is released without its sync object deleted:
\* the step that drops the last reference of a fence is a cleanup that runs
\* the fence's destroy callback, once, with DeleteSync for it.
C39_PlacedFenceSwept ==
    [][ /\ \A f \in Placed' : events' # events => EntriesIn(pools'["handles"], f) = 1
        /\ \A f \in Res :
              (kind[f] = "fences" /\ strong[f] > 0 /\ strong'[f] = 0) =>
                  /\ last'.op = "cleanup"
                  /\ destroyed'[f] = destroyed[f] + 1
                  /\ CallsOn(events', "DeleteSync", f) # { }
      ]_vars

====
